---- MODULE Spec2Model ----
(***************************************************************************)
(* A model of the two-axis stage controller (motor_controller.py) and the  *)
(* scan driver (simple_scanner.py).                                        *)
(*                                                                         *)
(* Time is counted in ticks of 10 ms, the granularity of every sleep and   *)
(* timeout of the code.  The clocks of clk are relative (time elapsed since *)
(* an instant the code stored) and saturate at the largest value the code  *)
(* compares them with.  Sleeps last exactly as long as requested and       *)
(* computation takes no time: the fastest execution of the code.           *)
(*                                                                         *)
(* The device and the transport are the environment: at every poll of the  *)
(* transport the environment may deliver any frame, or none.               *)
(***************************************************************************)
EXTENDS Integers, Sequences, FiniteSets, TLC

VARIABLES
    ctl,    \* ImprovedMotorController: the fields of the object
    rx,     \* transfer.rx_buff read as a status payload, or Blank
    clk,    \* relative clocks, in ticks
    sc,     \* the activation of _send_command and of the wrapper that called it
    cn,     \* the activation of connect and of its _ping_test
    mv,     \* the activation of move_to
    wt,     \* the activation of _wait_for_segment_completion
    env,    \* what the device and the transport may do
    scn,    \* the scanner: its configuration, scan_params and scan_progress
    ini,    \* the activation of initialize_scan
    ps,     \* the activation of perform_scan
    mp,     \* the activation of move_to_position
    rc,     \* the activation of _attempt_recovery
    wp,     \* the activation of wait_for_position
    sd,     \* the activation of _safe_shutdown_after_scan
    g       \* history variables: what was written to and read from the transport

vars == <<ctl, rx, clk, sc, cn, mv, wt, env, scn, ini, ps, mp, rc, wp, sd, g>>

\* The scanner and its activations.
scanner == <<scn, ini, ps, mp, rc, wp, sd>>

\* What lies outside the controller.
outer == <<env, scanner>>

\* The activations above _send_command, which it leaves alone.
callers == <<cn, mv, wt>>

\* The activations of the motion planner.
motion == <<mv, wt>>

----------------------------------------------------------------------------
(* Protocol constants                                                      *)

CMD_MOVE == 1
CMD_MOVETO == 2
CMD_SPEED == 3
CMD_ACCEL == 4
CMD_HOME == 5
CMD_STOP == 6
CMD_MODE == 7
CMD_STATUS == 8
CMD_DISABLE == 9
CMD_ENABLE == 10
CMD_PING == 11

RESP_OK == 1
RESP_ERROR == 2
RESP_STATUS == 3
RESP_POSITION == 4
RESP_PING == 5

MODE_JOYSTICK == 0
MODE_SERIAL == 1

MOTOR_X == 1
MOTOR_Y == 2
MOTOR_BOTH == 3

(* Times, in ticks of 10 ms *)
CommandSpacing == 10
MoveSpacing == 50
DefaultTimeout == 200
MovementTimeout == 500
ShortTimeoutCap == 200
RetryDelay == 50
PollSleep == 1
RetryCount == 3
ArduinoResetDelay == 200
PingTimeout == 200
SegmentTimeout == 500
MoveToTimeout == 200
SegmentTolerance == 5
CheckInterval == 50
StatusInterval == 100
LoopSleep == 5
LargeMoveThreshold == 40
DiagonalSegment == 20
StraightSegment == 30
PollInterval == 20
StartPause == 50
RetryAttempts == 3
StabilizationDelay == 10
PositionTolerance == 3
ExtendedTimeout == 1500
MotorSpeed == 600
MotorAccel == 1000
NudgeSteps == 10
StopPause == 50
DisablePause == 100
ModePause == 50
HomePause == 100
PingLow == 1000
PingHigh == 9999

----------------------------------------------------------------------------
(* Bounds of the model                                                     *)

\* A frame is available either at the first poll of a wait or LateDelay ticks
\* after the previous event of that wait.
LateDelay == 100
\* The far position the device may report on either axis.
FarPos == 7

\* How many times, around a move, the link to the device goes down or
\* comes back.
MaxLinkChanges == 1

\* How far beyond the commanded position an inexact device comes to rest.
NearMiss == 7

\* env.link: "up", every attempt is answered; "down", none is, and the
\* transport may raise; "any", each attempt goes one way or the other.
MayFail == env.link # "up"

\* env.fault, how a link that is down fails: "raises", the port is gone and
\* every write and read raises; "silent", the device is mute and every wait
\* times out; "any", each attempt fails one way or the other.
MayRaise == MayFail /\ env.fault # "silent"

MayWrite == ~(env.link = "down" /\ env.fault = "raises")

MayAnswer == env.link # "down"

\* A device that streams delivers a frame every StreamDelay: each turn of a
\* wait loop that finds no frame sleeps (lines 284, 362), so that reading a
\* frame takes time.
StreamDelay == 50

Delays ==
    IF env.frames = "stream" THEN {StreamDelay}
    ELSE IF env.late THEN {0, LateDelay} ELSE {0}

Min(a, b) == IF a < b THEN a ELSE b
Max(a, b) == IF a > b THEN a ELSE b

----------------------------------------------------------------------------
(* Frames                                                                  *)

\* What a Status/Position frame carries after cmd_echo (x, y, x_speed,
\* y_speed, x_running, y_running, mode, param1; the sequence number is
\* read by the code and never used).
Payload(pos, speed, run, mode, p1) ==
    [pos |-> pos, speed |-> speed, run |-> run, mode |-> mode, p1 |-> p1]

NoPayload == Payload(<<0, 0>>, <<0, 0>>, <<0, 0>>, 0, 0)

\* kind is the response id of the frame (byte 0); value is the i32 of a
\* 5-byte frame; echo and st are the fields of a 23-byte frame.
Frame(kind, value, echo, st) ==
    [kind |-> kind, value |-> value, echo |-> echo, st |-> st]

NoFrame == Frame(0, 0, 0, NoPayload)

IsStatusKind(k) == k \in {RESP_STATUS, RESP_POSITION}

\* What the device may report when no move was commanded: moving on X in
\* serial mode, or at rest in joystick mode (running flags are raw bytes).
FreePayloads ==
    { Payload(<<FarPos, 0>>, <<600, 0>>, <<1, 0>>, MODE_SERIAL, 5),
      Payload(<<0, FarPos>>, <<0, 0>>, <<0, 2>>, MODE_JOYSTICK, 0) }

\* Where the device is after the last MoveAbsolute frame written (an axis
\* outside the mask of the frame stays where the cache has it).
Commanded ==
    << IF g.lastMove.mask \in {MOTOR_X, MOTOR_BOTH}
       THEN g.lastMove.p1 ELSE ctl.current_position[1],
       IF g.lastMove.mask \in {MOTOR_Y, MOTOR_BOTH}
       THEN g.lastMove.p2 ELSE ctl.current_position[2] >>

\* What the device may report around a move: it is at rest at the
\* commanded position, or it is where the cache has it, running or at rest.
MovePayloads ==
    { Payload(Commanded, <<0, 0>>, <<0, 0>>, MODE_SERIAL, 0),
      Payload(ctl.current_position, <<600, 0>>, <<1, 0>>, MODE_SERIAL, 0),
      Payload(ctl.current_position, <<0, 0>>, <<0, 0>>, MODE_SERIAL, 0) }

\* What the device reports around a scan: it is at rest, env.miss steps
\* beyond, on the x axis, the position the commands it took lead to (g.at).
ScanPayloads ==
    { Payload(<<g.at[1] + env.miss, g.at[2]>>, <<0, 0>>, <<0, 0>>,
              MODE_SERIAL, 0) }

DevPayloads ==
    CASE env.frames = "free" -> FreePayloads
      [] env.frames = "move" -> MovePayloads
      [] env.frames \in {"scan", "stream"} -> ScanPayloads

\* An id other than cmd, for frames that answer another command.
OtherId(cmd) == IF cmd = CMD_STATUS THEN CMD_STOP ELSE CMD_STATUS

\* The frames the device may deliver while command cmd is waiting: any
\* frame; or (around a move) the acknowledgment and unsolicited status; or
\* (around a scan) one status frame for a status request, and the
\* acknowledgment; or (a device that streams) status frames and never an
\* acknowledgment.
DevFrames(cmd) ==
    CASE env.frames = "free" ->
           { Frame(RESP_OK, v, 0, NoPayload) : v \in {cmd, OtherId(cmd)} }
           \cup { Frame(RESP_ERROR, 1, 0, NoPayload), Frame(0, 0, 0, NoPayload) }
           \cup { Frame(RESP_STATUS, 0, e, st) : e \in {cmd, 0}, st \in DevPayloads }
           \cup { Frame(RESP_POSITION, 0, 0, st) : st \in DevPayloads }
      [] env.frames = "move" ->
           { Frame(RESP_OK, cmd, 0, NoPayload) }
           \cup { Frame(RESP_STATUS, 0, 0, st) : st \in DevPayloads }
      [] env.frames = "scan" ->
           IF cmd = CMD_STATUS /\ ~sc.got
           THEN { Frame(RESP_STATUS, 0, 0, st) : st \in DevPayloads }
           ELSE { Frame(RESP_OK, cmd, 0, NoPayload) }
      [] env.frames = "stream" ->
           { Frame(RESP_STATUS, 0, 0, st) : st \in DevPayloads }

----------------------------------------------------------------------------
(* The receive buffer of the transport                                     *)

\* transfer.rx_buff is a fixed list that starts filled with ' ' and keeps,
\* beyond the bytes of the frame just received, the bytes of earlier frames.
\* The model keeps what the 23 bytes of a status frame decode to (st), and
\* whether bytes 5..22 were ever written (blank).
BlankRx == [blank |-> TRUE, st |-> NoPayload]

Pow2_24 == 16777216

\* Bytes 2..5 after a 5-byte frame carrying value has overwritten bytes 0..4
\* of a buffer whose bytes 2..5 held oldx: the three high bytes of value and
\* the high byte of oldx, little-endian, read as a signed 32-bit integer.
MixX(value, oldx) ==
    LET low == (value \div 256) % Pow2_24
        high == (oldx \div Pow2_24) % 256
    IN  low + (IF high >= 128 THEN high - 256 ELSE high) * Pow2_24

\* The buffer after frame f was received into buffer b.
RxAfter(b, f) ==
    IF IsStatusKind(f.kind)
    THEN [blank |-> FALSE, st |-> f.st]
    ELSE [b EXCEPT !.st.pos = <<MixX(f.value, b.st.pos[1]), b.st.pos[2]>>]

----------------------------------------------------------------------------
(* Clocks                                                                  *)

\* cmd: time since last_command_time;  tx: time since the last frame was
\* written;  sc: time since start_time of the wait of _send_command or
\* _ping_test (tx is kept where the spacing of writes is examined);  wt,
\* chk, stat: time since start_time, last_check_time and
\* last_status_time of _wait_for_segment_completion;  wp, poll: time since
\* start_time and last_status_time of wait_for_position.
ClockCap ==
    [cmd |-> MoveSpacing, tx |-> MoveSpacing, sc |-> MovementTimeout,
     wt |-> SegmentTimeout, chk |-> CheckInterval, stat |-> StatusInterval,
     wp |-> ExtendedTimeout, poll |-> PollInterval]

\* A clock runs while the activation that reads it is alive.
Running(c) ==
    CASE c = "cmd" -> TRUE
      [] c = "tx" -> env.gaps
      [] c = "sc" -> sc.pc = "wait" \/ cn.pc = "ping_wait"
      [] c \in {"wt", "chk", "stat"} -> wt.pc # "idle"
      [] c \in {"wp", "poll"} -> wp.pc # "idle"

Advance(d) ==
    [c \in DOMAIN clk |->
        IF Running(c) THEN Min(clk[c] + d, ClockCap[c]) ELSE clk[c]]

IdleClocks ==
    [cmd |-> MoveSpacing, tx |-> MoveSpacing, sc |-> 0, wt |-> 0, chk |-> 0,
     stat |-> 0, wp |-> 0, poll |-> 0]

----------------------------------------------------------------------------
(* _send_command                                                           *)

NoneResp ==
    [none |-> TRUE, responseID |-> 0, value |-> 0, derived |-> FALSE,
     movement_started |-> FALSE, st |-> NoPayload]

OkResp(id, value, derived, started) ==
    [none |-> FALSE, responseID |-> id, value |-> value, derived |-> derived,
     movement_started |-> started, st |-> NoPayload]

NoStatus ==
    [position |-> <<0, 0>>, speed |-> <<0, 0>>, running |-> <<FALSE, FALSE>>,
     mode |-> 0]

\* ended: how the last attempt ended ("frame", "timeout" or "raised"); at:
\* how long after the write the frame that ended it was read; sent: how
\* many times the call wrote its frame (counted up to retry + 1).
IdleCall ==
    [pc |-> "idle", by |-> "none", via |-> "none", cmd |-> 0, mask |-> 0,
     p1 |-> 0, p2 |-> 0, timeout |-> 0, retry |-> 0, force |-> FALSE,
     attempt |-> 0, got |-> FALSE, ret |-> NoneResp, ok |-> FALSE,
     status |-> NoStatus, ended |-> "none", at |-> 0, sent |-> 0]

\* The activation record of wrapper via, called by `by`, at the entry of
\* _send_command(cmd, mask, p1, p2, timeout, retry_count, force_retry).
Call(by, via, cmd, mask, p1, p2, timeout, retry, force) ==
    [IdleCall EXCEPT !.pc = "entry", !.by = by, !.via = via, !.cmd = cmd,
                     !.mask = mask, !.p1 = p1, !.p2 = p2, !.timeout = timeout,
                     !.retry = retry, !.force = force]

IsMovement(cmd) == cmd \in {CMD_MOVE, CMD_MOVETO}

MinSpacing(cmd) == IF IsMovement(cmd) THEN MoveSpacing ELSE CommandSpacing

\* The history of a frame read from the transport: its kind and what it
\* carries as a status frame.
Seen(f) == [kind |-> f.kind, st |-> f.st]

\* Where the commands it took lead the device to, after frame
\* <<cmd, mask, p1, p2>>; a device behind a link that is down takes none,
\* and the position is followed around a scan and for a device that streams.
DeviceAfter(cmd, mask, p1, p2) ==
    LET onX == mask \in {MOTOR_X, MOTOR_BOTH}
        onY == mask \in {MOTOR_Y, MOTOR_BOTH}
    IN  IF env.frames \notin {"scan", "stream"} \/ env.link = "down" THEN g.at
        ELSE CASE cmd = CMD_MOVETO ->
                    << IF onX THEN p1 ELSE g.at[1], IF onY THEN p2 ELSE g.at[2] >>
               [] cmd = CMD_MOVE ->
                    << IF onX THEN g.at[1] + p1 ELSE g.at[1],
                       IF onY THEN g.at[2] + p2 ELSE g.at[2] >>
               [] cmd = CMD_HOME -> <<0, 0>>
               [] OTHER -> g.at

\* The history of a write of frame <<cmd, mask, p1, p2>> at this instant.
Written(cmd, mask, p1, p2) ==
    [g EXCEPT !.gap = clk.tx, !.txcmd = cmd,
              !.tx = [cmd |-> cmd, mask |-> mask, p1 |-> p1, p2 |-> p2],
              !.lastMove = IF cmd = CMD_MOVETO
                           THEN [mask |-> mask, p1 |-> p1, p2 |-> p2] ELSE @,
              !.moves = IF cmd = CMD_MOVETO THEN @ + 1 ELSE @,
              !.mvEnabled = IF cmd = CMD_MOVETO THEN ctl.motors_enabled ELSE @,
              !.at = DeviceAfter(cmd, mask, p1, p2), !.noise = FALSE]

\* Lines 229-251: the connection check and the pacing sleep.
SC_Entry ==
    /\ sc.pc = "entry"
    /\ IF ~ctl.connected \/ ~ctl.transfer
       THEN /\ sc' = [sc EXCEPT !.pc = "ret", !.ret = NoneResp]
            /\ clk' = clk
       ELSE /\ clk' = [Advance(Max(0, MinSpacing(sc.cmd) - clk.cmd))
                          EXCEPT !.cmd = 0]
            /\ sc' = [sc EXCEPT !.pc = "send", !.attempt = 0]
    /\ g' = [g EXCEPT !.corr = "none", !.corrSt = NoPayload]
    /\ UNCHANGED <<ctl, rx, callers, outer>>

\* Lines 254-265: one attempt packs and writes the frame.
SC_Send ==
    /\ sc.pc = "send"
    /\ sc.attempt < sc.retry
    /\ MayWrite
    /\ g' = Written(sc.cmd, sc.mask, sc.p1, sc.p2)
    /\ clk' = [clk EXCEPT !.tx = 0, !.sc = 0]
    /\ sc' = [sc EXCEPT !.pc = "wait", !.got = FALSE, !.ended = "none",
                        !.sent = Min(@ + 1, sc.retry + 1)]
    /\ UNCHANGED <<ctl, rx, callers, outer>>

\* Lines 370-376: the transport raises (in send or while polling); the
\* attempt is given up after a delay.
SC_Raises ==
    /\ sc.pc \in {"send", "wait"}
    /\ MayRaise
    /\ sc.attempt < sc.retry
    /\ clk' = [Advance(RetryDelay) EXCEPT !.sc = 0]
    /\ sc' = [sc EXCEPT !.pc = "send", !.attempt = @ + 1, !.ended = "raised"]
    /\ UNCHANGED <<ctl, rx, callers, outer, g>>

\* Lines 378-380: every attempt was used up.
SC_Exhausted ==
    /\ sc.pc = "send"
    /\ sc.attempt >= sc.retry
    /\ sc' = [sc EXCEPT !.pc = "ret", !.ret = NoneResp]
    /\ UNCHANGED <<ctl, rx, clk, callers, outer, g>>

ShortTimeout(timeout) == Min(ShortTimeoutCap, timeout)

\* The wait of the command times out: behind a link that is down and does
\* not raise; and, with a device that streams, when the next frame would come
\* after the timeout.
MaySilence ==
    IF env.frames = "stream"
    THEN clk.sc + StreamDelay >=
            (IF IsMovement(sc.cmd) THEN ShortTimeout(sc.timeout) ELSE sc.timeout)
    ELSE MayFail /\ env.fault # "raises"

\* Lines 269-284 with the wait going on until the frame is the
\* acknowledgment of the command.
SC_MoveRecvWaitsForAck(d, f) ==
    /\ sc.pc = "wait"
    /\ IsMovement(sc.cmd)
    /\ MayAnswer
    /\ clk.sc + d < ShortTimeout(sc.timeout)
    /\ clk' = [Advance(d) EXCEPT !.sc = IF (f.kind = RESP_OK /\ f.value = sc.cmd) THEN 0 ELSE @]
    /\ rx' = RxAfter(rx, f)
    /\ sc' = IF (f.kind = RESP_OK /\ f.value = sc.cmd)
             THEN [sc EXCEPT !.pc = "ret",
                             !.ret = OkResp(RESP_OK, sc.cmd, FALSE, TRUE),
                             !.ended = "frame", !.at = clk.sc + d]
             ELSE sc
    /\ g' = [g EXCEPT !.lastRx = Seen(f), !.rxIn = "move",
                      !.heard = @ \/ IsStatusKind(f.kind)]
    /\ UNCHANGED <<ctl, callers, outer>>

\* Lines 269-282: a movement command takes the first frame of any kind as
\* its acceptance, without decoding it.
SC_MoveRecv(d, f) ==
    /\ sc.pc = "wait"
    /\ IsMovement(sc.cmd)
    /\ MayAnswer
    /\ clk.sc + d < ShortTimeout(sc.timeout)
    /\ clk' = [Advance(d) EXCEPT !.sc = 0]
    /\ rx' = RxAfter(rx, f)
    /\ sc' = [sc EXCEPT !.pc = "ret", !.ret = OkResp(RESP_OK, sc.cmd, FALSE, TRUE),
                        !.ended = "frame", !.at = clk.sc + d]
    /\ g' = [g EXCEPT !.lastRx = Seen(f), !.rxIn = "move",
                      !.heard = @ \/ IsStatusKind(f.kind)]
    /\ UNCHANGED <<ctl, callers, outer>>

\* Lines 274, 286-288 in a loop that does not count its attempts.
SC_MoveTimeoutUncounted ==
    /\ sc.pc = "wait"
    /\ MaySilence
    /\ IsMovement(sc.cmd)
    /\ clk' = [Advance(ShortTimeout(sc.timeout) - clk.sc) EXCEPT !.sc = 0]
    /\ sc' = [sc EXCEPT !.pc = "send", !.ended = "timeout"]
    /\ UNCHANGED <<ctl, rx, callers, outer, g>>

\* Lines 274, 286-288: no frame within the short timeout; next attempt.
SC_MoveTimeout ==
    /\ sc.pc = "wait"
    /\ MaySilence
    /\ IsMovement(sc.cmd)
    /\ clk' = [Advance(ShortTimeout(sc.timeout) - clk.sc) EXCEPT !.sc = 0]
    /\ sc' = [sc EXCEPT !.pc = "send", !.attempt = @ + 1,
                        !.ended = "timeout"]
    /\ UNCHANGED <<ctl, rx, callers, outer, g>>

\* Line 307: the direct acknowledgment of the command.
IsAck(f, cmd) == f.kind = RESP_OK /\ f.value = cmd

\* Lines 317-360: whatever the kind of the frame, the buffer is decoded as a
\* status frame; decoding raises when the buffer still holds a ' '.
Decodes(b) == ~b.blank

\* Lines 331-334: the cache after the buffer decoded to st.
CacheAfter(c, st) ==
    [c EXCEPT !.current_position = st.pos,
              !.current_speed = st.speed,
              !.is_running = <<st.run[1] > 0, st.run[2] > 0>>,
              !.current_mode = st.mode]

\* An Error frame, or an Ok frame that answers another command.
IsNoise(f, cmd) ==
    \/ f.kind = RESP_ERROR
    \/ f.kind = RESP_OK /\ f.value # cmd

\* Lines 296-360 with an Error frame that ends the command.
SC_RecvErrorAborts(d, f) ==
    /\ sc.pc = "wait"
    /\ ~IsMovement(sc.cmd)
    /\ MayAnswer
    /\ clk.sc + d < sc.timeout
    /\ clk' = [Advance(d) EXCEPT !.sc = IF IsAck(f, sc.cmd) THEN 0 ELSE @]
    /\ rx' = RxAfter(rx, f)
    /\ IF IsAck(f, sc.cmd)
       THEN /\ sc' = [sc EXCEPT !.pc = "ret", !.ended = "frame",
                                !.ret = OkResp(f.kind, f.value, FALSE, FALSE)]
            /\ ctl' = ctl
       ELSE IF f.kind = RESP_ERROR
       THEN /\ sc' = [sc EXCEPT !.pc = "ret", !.ended = "frame",
                                !.ret = NoneResp]
            /\ ctl' = ctl
       ELSE /\ sc' = [sc EXCEPT !.got = @ \/ IsStatusKind(f.kind),
                                !.p1 = IF Decodes(rx') THEN rx'.st.p1 ELSE @]
            /\ ctl' = IF Decodes(rx') THEN CacheAfter(ctl, rx'.st) ELSE ctl
    /\ g' = [g EXCEPT !.lastRx = Seen(f), !.rxIn = "wait",
                      !.heard = @ \/ IsStatusKind(f.kind),
                      !.noise = @ \/ IsNoise(f, sc.cmd),
                      !.corr = IF IsAck(f, sc.cmd) THEN "ok"
                               ELSE IF IsStatusKind(f.kind) /\ f.echo = sc.cmd
                                    THEN "status" ELSE @,
                      !.corrSt = IF ~IsAck(f, sc.cmd) /\ IsStatusKind(f.kind)
                                    /\ f.echo = sc.cmd
                                 THEN f.st ELSE @]
    /\ UNCHANGED <<callers, outer>>

\* Lines 296-360: a frame read by the wait of a non-movement command.
SC_Recv(d, f) ==
    /\ sc.pc = "wait"
    /\ ~IsMovement(sc.cmd)
    /\ MayAnswer
    /\ clk.sc + d < sc.timeout
    /\ clk' = [Advance(d) EXCEPT !.sc = IF IsAck(f, sc.cmd) THEN 0 ELSE @]
    /\ rx' = RxAfter(rx, f)
    /\ IF IsAck(f, sc.cmd)
       THEN /\ sc' = [sc EXCEPT !.pc = "ret", !.ended = "frame",
                                !.ret = OkResp(f.kind, f.value, FALSE, FALSE)]
            /\ ctl' = ctl
       ELSE /\ sc' = [sc EXCEPT !.got = @ \/ IsStatusKind(f.kind),
                                !.p1 = IF Decodes(rx') THEN rx'.st.p1 ELSE @]
            /\ ctl' = IF Decodes(rx') THEN CacheAfter(ctl, rx'.st) ELSE ctl
    /\ g' = [g EXCEPT !.lastRx = Seen(f), !.rxIn = "wait",
                      !.heard = @ \/ IsStatusKind(f.kind),
                      !.noise = @ \/ IsNoise(f, sc.cmd),
                      !.corr = IF IsAck(f, sc.cmd) THEN "ok"
                               ELSE IF IsStatusKind(f.kind) /\ f.echo = sc.cmd
                                    THEN "status" ELSE @,
                      !.corrSt = IF ~IsAck(f, sc.cmd) /\ IsStatusKind(f.kind)
                                    /\ f.echo = sc.cmd
                                 THEN f.st ELSE @]
    /\ UNCHANGED <<callers, outer>>

\* Lines 296, 362-368 with force_retry not looked at.
SC_TimeoutIgnoresForce ==
    /\ sc.pc = "wait"
    /\ MaySilence
    /\ ~IsMovement(sc.cmd)
    /\ clk' = [Advance(Max(0, sc.timeout - clk.sc) + PollSleep) EXCEPT !.sc = 0]
    /\ IF sc.got
       THEN sc' = [sc EXCEPT !.pc = "ret", !.ended = "timeout",
                             !.ret = OkResp(RESP_OK, sc.cmd, TRUE, FALSE)]
       ELSE sc' = [sc EXCEPT !.pc = "send", !.attempt = @ + 1,
                             !.ended = "timeout"]
    /\ UNCHANGED <<ctl, rx, callers, outer, g>>

\* Lines 296, 362-368 in a loop that does not count its attempts.
SC_TimeoutUncounted ==
    /\ sc.pc = "wait"
    /\ MaySilence
    /\ ~IsMovement(sc.cmd)
    /\ clk' = [Advance(Max(0, sc.timeout - clk.sc) + PollSleep) EXCEPT !.sc = 0]
    /\ IF sc.got /\ ~sc.force
       THEN sc' = [sc EXCEPT !.pc = "ret", !.ended = "timeout",
                             !.ret = OkResp(RESP_OK, sc.cmd, TRUE, FALSE)]
       ELSE sc' = [sc EXCEPT !.pc = "send", !.ended = "timeout"]
    /\ UNCHANGED <<ctl, rx, callers, outer, g>>

\* Lines 296, 362-368: the timeout elapsed; after the sleep the command is
\* a derived success, or the next attempt starts.
SC_Timeout ==
    /\ sc.pc = "wait"
    /\ MaySilence
    /\ ~IsMovement(sc.cmd)
    /\ clk' = [Advance(Max(0, sc.timeout - clk.sc) + PollSleep) EXCEPT !.sc = 0]
    /\ IF sc.got /\ ~sc.force
       THEN sc' = [sc EXCEPT !.pc = "ret", !.ended = "timeout",
                             !.ret = OkResp(RESP_OK, sc.cmd, TRUE, FALSE)]
       ELSE sc' = [sc EXCEPT !.pc = "send", !.attempt = @ + 1,
                             !.ended = "timeout"]
    /\ UNCHANGED <<ctl, rx, callers, outer, g>>

----------------------------------------------------------------------------
(* The wrappers of _send_command                                           *)

\* Lines 484-498: get_status builds its answer from a Status/Position
\* response, and from the cache otherwise.
StatusOf(c, resp) ==
    IF ~resp.none /\ IsStatusKind(resp.responseID)
    THEN [position |-> resp.st.pos, speed |-> resp.st.speed,
          running |-> <<resp.st.run[1] > 0, resp.st.run[2] > 0>>,
          mode |-> resp.st.mode]
    ELSE [position |-> c.current_position, speed |-> c.current_speed,
          running |-> c.is_running, mode |-> c.current_mode]

\* Lines 756-759 and 768-771: motors_enabled after enable_motors or
\* disable_motors got response resp.
EnabledAfter(via, resp, was) ==
    IF resp.none THEN was ELSE (via = "enable_motors")

\* The wrapper returns: enable_motors/disable_motors record the state of the
\* motors, get_status builds its answer, the others report whether there
\* was a response.
WrapperRet ==
    /\ sc.pc = "ret"
    /\ sc' = [sc EXCEPT !.pc = "done", !.ok = ~sc.ret.none,
                        !.status = IF sc.via = "get_status"
                                   THEN StatusOf(ctl, sc.ret) ELSE @]
    /\ ctl' = IF sc.via \in {"enable_motors", "disable_motors"}
              THEN [ctl EXCEPT !.motors_enabled =
                                   EnabledAfter(sc.via, sc.ret, @)]
              ELSE ctl
    /\ g' = IF sc.via \in {"enable_motors", "disable_motors"}
               /\ ~sc.ret.none /\ ~sc.ret.derived
            THEN [g EXCEPT !.ackEnabled = (sc.via = "enable_motors")]
            ELSE g
    /\ UNCHANGED <<rx, clk, callers, outer>>

EngineNext ==
    \/ SC_Entry
    \/ SC_Send
    \/ SC_Raises
    \/ SC_Exhausted
    \/ \E d \in Delays, f \in DevFrames(sc.cmd) : SC_MoveRecv(d, f)
    \/ SC_MoveTimeout
    \/ \E d \in Delays, f \in DevFrames(sc.cmd) : SC_Recv(d, f)
    \/ SC_Timeout
    \/ WrapperRet

----------------------------------------------------------------------------
(* connect, disconnect, _ping_test                                         *)

\* Lines 68-94: the controller as __init__ leaves it.
InitCtl ==
    [connected |-> FALSE, transfer |-> FALSE,
     current_position |-> <<0, 0>>, current_speed |-> <<0, 0>>,
     is_running |-> <<FALSE, FALSE>>, current_mode |-> MODE_JOYSTICK,
     motors_enabled |-> FALSE,
     auto_disable_on_disconnect |-> TRUE, auto_switch_to_joystick |-> TRUE]

\* op: the method called ("connect" or "disconnect"); before, status0: the
\* controller and the scanner's connection_status when it was called.
IdleConnect ==
    [pc |-> "idle", by |-> "none", test |-> 0, ok |-> FALSE, op |-> "none",
     before |-> InitCtl, status0 |-> FALSE]

\* Lines 158-165 without the finally clause of line 165: the transport is
\* closed and forgotten, the flag is left as it was.
DisconnectedKeepsFlag(c) ==
    IF c.transfer THEN [c EXCEPT !.transfer = FALSE] ELSE c

\* Lines 158-165: disconnect closes and forgets the transport, if there is one.
Disconnected(c) ==
    IF c.transfer THEN [c EXCEPT !.transfer = FALSE, !.connected = FALSE] ELSE c

\* Lines 133-137: a new transport is opened (its buffer is new), and connect
\* sleeps while the Arduino resets.
Connect_Open ==
    /\ cn.pc = "entry"
    /\ ctl' = [ctl EXCEPT !.transfer = TRUE]
    /\ rx' = BlankRx
    /\ clk' = Advance(ArduinoResetDelay)
    /\ cn' = [cn EXCEPT !.pc = "ping"]
    /\ UNCHANGED <<sc, g, motion, outer>>

\* Lines 149-154: creating the transport (opened = FALSE) or opening it
\* (opened = TRUE) raises; connect disconnects and fails.
Connect_OpenRaises(opened) ==
    /\ cn.pc = "entry"
    /\ ctl' = Disconnected([ctl EXCEPT !.transfer = @ \/ opened])
    /\ rx' = IF opened THEN BlankRx ELSE rx
    /\ cn' = [cn EXCEPT !.pc = "done", !.ok = FALSE]
    /\ UNCHANGED <<clk, sc, g, motion, outer>>

\* Lines 171-190: _ping_test writes a ping frame carrying a random value; it
\* neither waits for the command spacing nor stores the time of the write.
Ping_Send(test) ==
    /\ cn.pc = "ping"
    /\ g' = Written(CMD_PING, 0, test, 0)
    /\ clk' = [clk EXCEPT !.tx = 0, !.sc = 0]
    /\ cn' = [cn EXCEPT !.pc = "ping_wait", !.test = test]
    /\ UNCHANGED <<ctl, rx, sc, motion, outer>>

\* Line 201: the answer to the ping.
IsPong(f, test) == f.kind = RESP_PING /\ f.value = test

\* Lines 191-209 and 140-147: the first frame decides the ping; connect
\* records the connection or disconnects.
Ping_Recv(d, f) ==
    /\ cn.pc = "ping_wait"
    /\ clk.sc + d < PingTimeout
    /\ clk' = [Advance(d) EXCEPT !.sc = 0]
    /\ rx' = RxAfter(rx, f)
    /\ ctl' = IF IsPong(f, cn.test) THEN [ctl EXCEPT !.connected = TRUE]
              ELSE Disconnected(ctl)
    /\ cn' = [cn EXCEPT !.pc = "done", !.ok = IsPong(f, cn.test)]
    /\ g' = [g EXCEPT !.lastRx = Seen(f), !.rxIn = "ping"]
    /\ UNCHANGED <<sc, motion, outer>>

\* Lines 191, 212-225 and 144-154: the ping times out, or the transport
\* reports an error or raises (failed = TRUE); connect disconnects.
Ping_Fails(failed) ==
    /\ cn.pc = "ping_wait"
    /\ clk' = [(IF failed THEN clk ELSE Advance(Max(0, PingTimeout - clk.sc)))
                 EXCEPT !.sc = 0]
    /\ ctl' = Disconnected(ctl)
    /\ cn' = [cn EXCEPT !.pc = "done", !.ok = FALSE]
    /\ UNCHANGED <<rx, sc, g, motion, outer>>

\* The frames the device may send in answer to a ping carrying test.
PingFrames(test) ==
    { Frame(RESP_PING, v, 0, NoPayload) : v \in {PingLow, PingHigh} }
    \cup { Frame(RESP_OK, CMD_PING, 0, NoPayload) }
    \cup { Frame(RESP_STATUS, 0, 0, st) : st \in DevPayloads }

ConnectNext ==
    \/ Connect_Open
    \/ \E opened \in BOOLEAN : Connect_OpenRaises(opened)
    \/ \E test \in {PingLow, PingHigh} : Ping_Send(test)
    \/ \E d \in Delays, f \in PingFrames(cn.test) : Ping_Recv(d, f)
    \/ \E failed \in BOOLEAN : Ping_Fails(failed)

----------------------------------------------------------------------------
(* The caller of the controller's methods                                  *)

InitHistory ==
    [gap |-> MoveSpacing, txcmd |-> 0,
     tx |-> [cmd |-> 0, mask |-> 0, p1 |-> 0, p2 |-> 0],
     lastRx |-> Seen(NoFrame), rxIn |-> "none", corr |-> "none",
     corrSt |-> NoPayload, ackEnabled |-> FALSE,
     lastMove |-> [mask |-> 0, p1 |-> 0, p2 |-> 0], moves |-> 0,
     mvEnabled |-> TRUE, at |-> <<0, 0>>, heard |-> FALSE, noise |-> FALSE]

\* When a method has returned, the history of its frames is dropped; what is
\* kept is the effect of the last acknowledged Enable or Disable, and where
\* the device is.
Forgotten == [InitHistory EXCEPT !.ackEnabled = g.ackEnabled, !.at = g.at]

\* When a caller has taken the result of _send_command, the history of the
\* frames read for it is dropped.
Consumed ==
    [g EXCEPT !.lastRx = Seen(NoFrame), !.rxIn = "none", !.corr = "none",
              !.corrSt = NoPayload, !.noise = FALSE]

Idle ==
    /\ sc.pc = "idle" /\ cn.pc = "idle" /\ mv.pc = "idle" /\ wt.pc = "idle"
    /\ ps.pc = "idle" /\ mp.pc = "idle" /\ rc.pc = "idle" /\ wp.pc = "idle"
    /\ sd.pc = "idle" /\ ini.pc = "idle"

\* The call of a wrapper of _send_command (lines 481, 690-695, 712-717,
\* 723-726, 732-735, 741-745, 751-754, 763-766, 641-658), with its arguments.
WrapperCall(by, via, a, b) ==
    CASE via = "get_status" ->
           Call(by, via, CMD_STATUS, 0, 0, 0, DefaultTimeout, RetryCount, FALSE)
      [] via = "enable_motors" ->
           Call(by, via, CMD_ENABLE, MOTOR_BOTH, 0, 0, DefaultTimeout, RetryCount, FALSE)
      [] via = "disable_motors" ->
           Call(by, via, CMD_DISABLE, MOTOR_BOTH, 0, 0, DefaultTimeout, RetryCount, FALSE)
      [] via = "stop" ->
           Call(by, via, CMD_STOP, MOTOR_BOTH, 0, 0, DefaultTimeout, RetryCount, FALSE)
      [] via = "home" ->
           Call(by, via, CMD_HOME, MOTOR_BOTH, 0, 0, DefaultTimeout, RetryCount, FALSE)
      [] via = "set_mode" ->
           Call(by, via, CMD_MODE, 0, a, 0, DefaultTimeout, RetryCount, FALSE)
      [] via = "set_speed" ->
           Call(by, via, CMD_SPEED, MOTOR_BOTH, a, b, DefaultTimeout, RetryCount, FALSE)
      [] via = "set_acceleration" ->
           Call(by, via, CMD_ACCEL, MOTOR_BOTH, a, b, DefaultTimeout, RetryCount, FALSE)
      [] via = "move_by" ->
           Call(by, via, CMD_MOVE, MOTOR_BOTH, a, b, MovementTimeout, RetryCount, FALSE)

\* The methods the caller invokes, with their arguments.
TopCalls ==
    { <<"get_status", 0, 0>>, <<"enable_motors", 0, 0>>,
      <<"disable_motors", 0, 0>>, <<"set_mode", MODE_SERIAL, 0>>,
      <<"move_by", 10, 10>> }

TopCall(c) ==
    /\ Idle
    /\ sc' = WrapperCall("top", c[1], c[2], c[3])
    /\ UNCHANGED <<ctl, rx, clk, cn, g, motion, outer>>

\* _send_command(CMD_STATUS, force_retry=True), called directly.
TopSendStrict ==
    /\ Idle
    /\ sc' = Call("top", "_send_command", CMD_STATUS, 0, 0, 0, DefaultTimeout,
                  RetryCount, TRUE)
    /\ UNCHANGED <<ctl, rx, clk, cn, g, motion, outer>>

TopReturn ==
    /\ sc.pc = "done"
    /\ sc.by = "top"
    /\ sc' = IdleCall
    /\ g' = Forgotten
    /\ UNCHANGED <<ctl, rx, clk, cn, motion, outer>>

TopConnect ==
    /\ Idle
    /\ cn' = [IdleConnect EXCEPT !.pc = "entry", !.by = "top"]
    /\ UNCHANGED <<ctl, rx, clk, sc, g, motion, outer>>

TopConnectReturn ==
    /\ cn.pc = "done"
    /\ cn.by = "top"
    /\ cn' = IdleConnect
    /\ g' = Forgotten
    /\ UNCHANGED <<ctl, rx, clk, sc, motion, outer>>

TopDisconnect ==
    /\ Idle
    /\ ctl' = Disconnected(ctl)
    /\ UNCHANGED <<rx, clk, sc, cn, g, motion, outer>>

----------------------------------------------------------------------------
(* _wait_for_segment_completion                                            *)

IdleWait ==
    [pc |-> "idle", by |-> "none", tx |-> 0, ty |-> 0, timeout |-> 0,
     tol |-> 0, count |-> 0, hasLast |-> FALSE, last |-> <<0, 0>>,
     due |-> FALSE, sampled |-> FALSE, sample |-> <<0, 0>>, how |-> "none",
     ok |-> FALSE]

\* Lines 396-406: the activation at the entry of
\* _wait_for_segment_completion(target_x, target_y, timeout, tolerance).
WaitCall(by, tx, ty, timeout, tol) ==
    [IdleWait EXCEPT !.pc = "loop", !.by = by, !.tx = tx, !.ty = ty,
                     !.timeout = timeout, !.tol = tol]

\* Lines 400-405: start_time is now; last_check_time and last_status_time
\* are 0, an instant longer ago than any interval.
WaitClocks ==
    [clk EXCEPT !.wt = 0, !.chk = CheckInterval, !.stat = StatusInterval]

StoppedClocks(c) == [c EXCEPT !.wt = 0, !.chk = 0, !.stat = 0]

Abs(a) == IF a < 0 THEN -a ELSE a

\* Lines 421-423.
Stable(w, p) ==
    w.hasLast /\ Abs(p[1] - w.last[1]) < 2 /\ Abs(p[2] - w.last[2]) < 2

\* Lines 426-427.
Reached(w, p) == Abs(p[1] - w.tx) <= w.tol /\ Abs(p[2] - w.ty) <= w.tol

\* Lines 444-449 without the condition of line 449.
WithinWiderAtOnce(w, p, count) ==
    /\ 2 * Abs(p[1] - w.tx) <= w.tol * (2 + count)
    /\ 2 * Abs(p[2] - w.ty) <= w.tol * (2 + count)

\* Lines 444-449: tolerance * (1 + count * 0.5), compared after doubling.
WithinWider(w, p, count) ==
    /\ 2 * Abs(p[1] - w.tx) <= w.tol * (2 + count)
    /\ 2 * Abs(p[2] - w.ty) <= w.tol * (2 + count)
    /\ count >= 2

\* Lines 410-414 and 473: how many times a polling loop sleeps before its
\* interval or its timeout has elapsed.
Naps(since, interval, start, timeout) ==
    LET Over(k) == \/ since + k * LoopSleep >= interval
                   \/ start + k * LoopSleep >= timeout
    IN  CHOOSE k \in 1..(interval \div LoopSleep) :
            Over(k) /\ \A j \in 1..(k - 1) : ~Over(j)

\* Lines 410-418 and 473: the loop test; a poll of the position is started
\* when the check interval has elapsed, and the loop sleeps otherwise.
WT_Loop ==
    /\ wt.pc = "loop"
    /\ sc.pc = "idle"
    /\ IF clk.wt >= wt.timeout
       THEN /\ wt' = [wt EXCEPT !.pc = "done", !.ok = FALSE, !.how = "timeout"]
            /\ UNCHANGED <<clk, sc>>
       ELSE IF clk.chk >= CheckInterval
       THEN /\ wt' = [wt EXCEPT !.pc = "polling",
                                !.due = (clk.stat >= StatusInterval)]
            /\ clk' = [clk EXCEPT !.chk = 0]
            /\ sc' = WrapperCall("wt_pos", "get_status", 0, 0)
       ELSE /\ clk' = Advance(Naps(clk.chk, CheckInterval, clk.wt, wt.timeout)
                                * LoopSleep)
            /\ UNCHANGED <<wt, sc>>
    /\ UNCHANGED <<ctl, rx, cn, mv, outer, g>>

\* Lines 418-470 and 473: the position sample is judged.
WT_Polled ==
    /\ wt.pc = "polling"
    /\ sc.pc = "done"
    /\ sc.by = "wt_pos"
    /\ LET p == sc.status.position
           count == IF Stable(wt, p) THEN wt.count + 1 ELSE 0
           w == [wt EXCEPT !.sampled = TRUE, !.sample = p]
       IN  IF Reached(wt, p)
           THEN /\ wt' = [w EXCEPT !.pc = "done", !.ok = TRUE, !.how = "reached"]
                /\ sc' = IdleCall
                /\ clk' = clk
           ELSE IF Stable(wt, p) /\ WithinWider(wt, p, count)
           THEN /\ wt' = [w EXCEPT !.pc = "done", !.ok = TRUE, !.how = "wider",
                                   !.count = count]
                /\ sc' = IdleCall
                /\ clk' = clk
           ELSE IF Stable(wt, p) /\ count >= 3 /\ wt.due
           THEN /\ wt' = [w EXCEPT !.pc = "status", !.count = count]
                /\ sc' = WrapperCall("wt_stat", "get_status", 0, 0)
                /\ clk' = [clk EXCEPT !.stat = clk.chk]
           ELSE /\ wt' = [w EXCEPT !.pc = "loop", !.count = count,
                                   !.hasLast = TRUE, !.last = p]
                /\ sc' = IdleCall
                /\ clk' = Advance(LoopSleep)
    /\ g' = Consumed
    /\ UNCHANGED <<ctl, rx, cn, mv, outer>>

\* Lines 456-470 with motors at rest that always end the wait with failure.
WT_StatusNeverAccepts ==
    /\ wt.pc = "status"
    /\ sc.pc = "done"
    /\ sc.by = "wt_stat"
    /\ IF ~sc.status.running[1] /\ ~sc.status.running[2]
       THEN /\ wt' = [wt EXCEPT !.pc = "done", !.ok = FALSE, !.how = "stopped"]
            /\ clk' = clk
       ELSE /\ wt' = [wt EXCEPT !.pc = "loop", !.hasLast = TRUE,
                                !.last = wt.sample]
            /\ clk' = Advance(LoopSleep)
    /\ sc' = IdleCall
    /\ g' = Consumed
    /\ UNCHANGED <<ctl, rx, cn, mv, outer>>

\* Lines 456-470 and 473: the motors are asked whether they run.
WT_Status ==
    /\ wt.pc = "status"
    /\ sc.pc = "done"
    /\ sc.by = "wt_stat"
    /\ IF ~sc.status.running[1] /\ ~sc.status.running[2]
       THEN /\ wt' = [wt EXCEPT !.pc = "done", !.ok = (wt.count >= 5),
                                !.how = "stopped"]
            /\ clk' = clk
       ELSE /\ wt' = [wt EXCEPT !.pc = "loop", !.hasLast = TRUE,
                                !.last = wt.sample]
            /\ clk' = Advance(LoopSleep)
    /\ sc' = IdleCall
    /\ g' = Consumed
    /\ UNCHANGED <<ctl, rx, cn, mv, outer>>

WaitNext ==
    \/ WT_Loop
    \/ WT_Polled
    \/ WT_Status

----------------------------------------------------------------------------
(* move_to                                                                 *)

\* hx, hy: the axis was given (it is not None).  cur is current_x,
\* current_y; start is what they were when the move began; dx, dy are the
\* differences x_step and y_step are computed from; sx, sy, mask are the
\* frame of the segment.  log: what became of the segments so far, in order
\* ("accepted" or "refused" for the command of a segment, "arrived" or
\* "missed" for its arrival wait).  via is "move_by" in an activation of
\* move_by: rel is its argument and from the position it computed its
\* target from.
IdleMove ==
    [pc |-> "idle", by |-> "none", x |-> 0, y |-> 0, hx |-> FALSE,
     hy |-> FALSE, cur |-> <<0, 0>>, start |-> <<0, 0>>, n |-> 0, i |-> 0,
     dx |-> 0, dy |-> 0, sx |-> 0, sy |-> 0, mask |-> 0, ok |-> FALSE,
     log |-> <<>>, via |-> "move_to", rel |-> <<0, 0>>, from |-> <<0, 0>>]

\* A target of move_to; an axis that is None is carried as 0 and not given.
Target(x, y, hx, hy) == [x |-> x, y |-> y, hx |-> hx, hy |-> hy]

MoveCall(by, t) ==
    [IdleMove EXCEPT !.pc = "entry", !.by = by, !.x = t.x, !.y = t.y,
                     !.hx = t.hx, !.hy = t.hy]

\* int() of the float a / n.
Trunc(a, n) == IF a >= 0 THEN a \div n ELSE -((-a) \div n)

\* Line 537: max(2, int(sqrt(q) / size)), q the squared distance.
Segments(q, size) ==
    Max(2, CHOOSE m \in 0..q :
               /\ m * m * size * size <= q
               /\ (m + 1) * (m + 1) * size * size > q)

\* Lines 548-549: int(current + step * k), step = d / n.
Waypoint(cur, d, k, n) == Trunc(cur * n + d * k, n)

\* Lines 560-564 and 599-603.
MotorSelect(hx, hy) ==
    (IF hx THEN MOTOR_X ELSE 0) + (IF hy THEN MOTOR_Y ELSE 0)

\* Line 509.
MV_Entry ==
    /\ mv.pc = "entry"
    /\ mv' = [mv EXCEPT !.pc = "pos0"]
    /\ sc' = WrapperCall("mv_pos0", "get_status", 0, 0)
    /\ UNCHANGED <<ctl, rx, clk, cn, wt, outer, g>>

\* Lines 509-518: the position is taken; the motors are enabled when the
\* controller has them disabled.
MV_Pos0 ==
    /\ mv.pc = "pos0"
    /\ sc.pc = "done"
    /\ sc.by = "mv_pos0"
    /\ IF ~ctl.motors_enabled
       THEN /\ mv' = [mv EXCEPT !.pc = "enable", !.cur = sc.status.position,
                                !.start = sc.status.position]
            /\ sc' = WrapperCall("mv_enable", "enable_motors", 0, 0)
       ELSE /\ mv' = [mv EXCEPT !.pc = "plan", !.cur = sc.status.position,
                                !.start = sc.status.position]
            /\ sc' = IdleCall
    /\ g' = Consumed
    /\ UNCHANGED <<ctl, rx, clk, cn, wt, outer>>

\* Line 518: what enable_motors returns is not looked at.
MV_Enabled ==
    /\ mv.pc = "enable"
    /\ sc.pc = "done"
    /\ sc.by = "mv_enable"
    /\ mv' = [mv EXCEPT !.pc = "plan"]
    /\ sc' = IdleCall
    /\ g' = Consumed
    /\ UNCHANGED <<ctl, rx, clk, cn, wt, outer>>

\* Lines 512-513.
Dist(given, target, cur) == IF given THEN Abs(target - cur) ELSE 0

\* Lines 512-543 and 597: a large move is cut in segments.
MV_Plan ==
    /\ mv.pc = "plan"
    /\ LET x_dist == Dist(mv.hx, mv.x, mv.cur[1])
           y_dist == Dist(mv.hy, mv.y, mv.cur[2])
           size == IF x_dist > 0 /\ y_dist > 0
                   THEN DiagonalSegment ELSE StraightSegment
       IN  IF x_dist > LargeMoveThreshold \/ y_dist > LargeMoveThreshold
           THEN mv' = [mv EXCEPT
                         !.pc = "seg",
                         !.n = Segments(x_dist * x_dist + y_dist * y_dist, size),
                         !.i = 0,
                         !.dx = IF mv.hx THEN mv.x - mv.cur[1] ELSE 0,
                         !.dy = IF mv.hy THEN mv.y - mv.cur[2] ELSE 0]
           ELSE mv' = [mv EXCEPT !.pc = "one"]
    /\ UNCHANGED <<ctl, rx, clk, sc, cn, wt, outer, g>>

\* Lines 548-549 without lines 552-554: the last segment is interpolated
\* as the others are.
SegmentTargetInterpolated(m, target, cur, d) == Waypoint(cur, d, m.i + 1, m.n)

\* Lines 548-554: the target of segment i (from 0) on an axis that is given.
SegmentTarget(m, target, cur, d) ==
    IF m.i = m.n - 1 THEN target ELSE Waypoint(cur, d, m.i + 1, m.n)

\* Lines 546-576: the frame of a segment; an axis that is None is left out
\* of the mask and sent as 0.
MV_SegSend ==
    /\ mv.pc = "seg"
    /\ LET sx == IF mv.hx THEN SegmentTarget(mv, mv.x, mv.cur[1], mv.dx) ELSE 0
           sy == IF mv.hy THEN SegmentTarget(mv, mv.y, mv.cur[2], mv.dy) ELSE 0
           mask == MotorSelect(mv.hx, mv.hy)
       IN  /\ mv' = [mv EXCEPT !.pc = "seg_sent", !.sx = sx, !.sy = sy,
                               !.mask = mask]
           /\ sc' = Call("mv_seg", "move_to", CMD_MOVETO, mask, sx, sy,
                         MoveToTimeout, RetryCount, FALSE)
    /\ UNCHANGED <<ctl, rx, clk, cn, wt, outer, g>>

\* Lines 578-592: a segment that was accepted is waited for, with the
\* values of the frame as the target.
MV_SegSent ==
    /\ mv.pc = "seg_sent"
    /\ sc.pc = "done"
    /\ sc.by = "mv_seg"
    /\ IF sc.ok
       THEN /\ mv' = [mv EXCEPT !.pc = "seg_wait",
                                !.log = Append(@, "accepted")]
            /\ wt' = WaitCall("mv_seg", mv.sx, mv.sy, SegmentTimeout,
                              SegmentTolerance)
            /\ clk' = WaitClocks
       ELSE /\ mv' = [mv EXCEPT !.pc = "done", !.ok = FALSE,
                                !.log = Append(@, "refused")]
            /\ UNCHANGED <<wt, clk>>
    /\ sc' = IdleCall
    /\ g' = Consumed
    /\ UNCHANGED <<ctl, rx, cn, outer>>

\* Lines 584-589 without the return of line 589: a segment that did not
\* arrive is followed by the next one.
MV_SegWaitedGoesOn ==
    /\ mv.pc = "seg_wait"
    /\ wt.pc = "done"
    /\ wt.by = "mv_seg"
    /\ mv' = [mv EXCEPT !.pc = "seg_pos",
                        !.log = Append(@, IF wt.ok THEN "arrived" ELSE "missed")]
    /\ sc' = WrapperCall("mv_segpos", "get_status", 0, 0)
    /\ wt' = IdleWait
    /\ clk' = StoppedClocks(clk)
    /\ UNCHANGED <<ctl, rx, cn, outer, g>>

\* Lines 584-589: after a segment that arrived the position is taken again.
MV_SegWaited ==
    /\ mv.pc = "seg_wait"
    /\ wt.pc = "done"
    /\ wt.by = "mv_seg"
    /\ IF wt.ok
       THEN /\ mv' = [mv EXCEPT !.pc = "seg_pos", !.log = Append(@, "arrived")]
            /\ sc' = WrapperCall("mv_segpos", "get_status", 0, 0)
       ELSE /\ mv' = [mv EXCEPT !.pc = "done", !.ok = FALSE,
                                !.log = Append(@, "missed")]
            /\ sc' = sc
    /\ wt' = IdleWait
    /\ clk' = StoppedClocks(clk)
    /\ UNCHANGED <<ctl, rx, cn, outer, g>>

\* Lines 546, 586 and 595: current_x, current_y are replaced (x_step and
\* y_step are not); the move is done after the last segment.
MV_SegPos ==
    /\ mv.pc = "seg_pos"
    /\ sc.pc = "done"
    /\ sc.by = "mv_segpos"
    /\ mv' = [mv EXCEPT !.cur = sc.status.position, !.i = @ + 1,
                        !.pc = IF mv.i + 1 < mv.n THEN "seg" ELSE "done",
                        !.ok = ~(mv.i + 1 < mv.n)]
    /\ sc' = IdleCall
    /\ g' = Consumed
    /\ UNCHANGED <<ctl, rx, clk, cn, wt, outer>>

\* Lines 598-616: a small move is one frame.
MV_OneSend ==
    /\ mv.pc = "one"
    /\ LET sx == IF mv.hx THEN mv.x ELSE 0
           sy == IF mv.hy THEN mv.y ELSE 0
           mask == MotorSelect(mv.hx, mv.hy)
       IN  /\ mv' = [mv EXCEPT !.pc = "one_sent", !.sx = sx, !.sy = sy,
                               !.mask = mask]
           /\ sc' = Call("mv_one", "move_to", CMD_MOVETO, mask, sx, sy,
                         MoveToTimeout, RetryCount, FALSE)
    /\ UNCHANGED <<ctl, rx, clk, cn, wt, outer, g>>

\* Lines 618-622.
MV_OneSent ==
    /\ mv.pc = "one_sent"
    /\ sc.pc = "done"
    /\ sc.by = "mv_one"
    /\ IF sc.ok
       THEN /\ mv' = [mv EXCEPT !.pc = "one_wait"]
            /\ wt' = WaitCall("mv_one", mv.sx, mv.sy, SegmentTimeout,
                              SegmentTolerance)
            /\ clk' = WaitClocks
       ELSE /\ mv' = [mv EXCEPT !.pc = "done", !.ok = FALSE]
            /\ UNCHANGED <<wt, clk>>
    /\ sc' = IdleCall
    /\ g' = Consumed
    /\ UNCHANGED <<ctl, rx, cn, outer>>

\* Line 620: the move is what the wait is.
MV_OneWaited ==
    /\ mv.pc = "one_wait"
    /\ wt.pc = "done"
    /\ wt.by = "mv_one"
    /\ mv' = [mv EXCEPT !.pc = "done", !.ok = wt.ok]
    /\ wt' = IdleWait
    /\ clk' = StoppedClocks(clk)
    /\ UNCHANGED <<ctl, rx, sc, cn, outer, g>>

MoveNext ==
    \/ MV_Entry
    \/ MV_Pos0
    \/ MV_Enabled
    \/ MV_Plan
    \/ MV_SegSend
    \/ MV_SegSent
    \/ MV_SegWaited
    \/ MV_SegPos
    \/ MV_OneSend
    \/ MV_OneSent
    \/ MV_OneWaited

----------------------------------------------------------------------------
(* wait_for_position                                                       *)

IdlePoll ==
    [pc |-> "idle", by |-> "none", tx |-> 0, ty |-> 0, timeout |-> 0,
     tol |-> 0, hasLast |-> FALSE, last |-> <<0, 0>>, ok |-> FALSE]

\* Lines 773-780: the activation of wait_for_position(target_x, target_y,
\* timeout, tolerance); last_status_time is 0.
PollCall(by, tx, ty, timeout, tol) ==
    [IdlePoll EXCEPT !.pc = "loop", !.by = by, !.tx = tx, !.ty = ty,
                     !.timeout = timeout, !.tol = tol]

PollClocks == [clk EXCEPT !.wp = 0, !.poll = PollInterval]

\* Lines 782-788 and 812.
WP_Loop ==
    /\ wp.pc = "loop"
    /\ sc.pc = "idle"
    /\ IF clk.wp >= wp.timeout
       THEN /\ wp' = [wp EXCEPT !.pc = "done", !.ok = FALSE]
            /\ UNCHANGED <<clk, sc>>
       ELSE IF clk.poll >= PollInterval
       THEN /\ wp' = [wp EXCEPT !.pc = "polling"]
            /\ clk' = [clk EXCEPT !.poll = 0]
            /\ sc' = WrapperCall("wp_pos", "get_status", 0, 0)
       ELSE /\ clk' = Advance(Naps(clk.poll, PollInterval, clk.wp, wp.timeout)
                                * LoopSleep)
            /\ UNCHANGED <<wp, sc>>
    /\ UNCHANGED <<ctl, rx, cn, mv, wt, env, scn, ini, ps, mp, rc, sd, g>>

\* Lines 788-806 and 812: the position is judged; a position that has not
\* changed makes the wait ask whether the motors run.
WP_Polled ==
    /\ wp.pc = "polling"
    /\ sc.pc = "done"
    /\ sc.by = "wp_pos"
    /\ LET p == sc.status.position
           w == [wp EXCEPT !.hasLast = TRUE, !.last = p]
       IN  IF Abs(p[1] - wp.tx) <= wp.tol /\ Abs(p[2] - wp.ty) <= wp.tol
           THEN /\ wp' = [w EXCEPT !.pc = "done", !.ok = TRUE]
                /\ sc' = IdleCall
                /\ clk' = clk
           ELSE IF wp.hasLast /\ p = wp.last
           THEN /\ wp' = [w EXCEPT !.pc = "status"]
                /\ sc' = WrapperCall("wp_stat", "get_status", 0, 0)
                /\ clk' = clk
           ELSE /\ wp' = [w EXCEPT !.pc = "loop"]
                /\ sc' = IdleCall
                /\ clk' = Advance(LoopSleep)
    /\ g' = Consumed
    /\ UNCHANGED <<ctl, rx, cn, mv, wt, env, scn, ini, ps, mp, rc, sd>>

\* Lines 806-812: motors at rest away from the target end the wait.
WP_Status ==
    /\ wp.pc = "status"
    /\ sc.pc = "done"
    /\ sc.by = "wp_stat"
    /\ IF /\ ~sc.status.running[1] /\ ~sc.status.running[2]
          /\ \/ Abs(wp.last[1] - wp.tx) > wp.tol
             \/ Abs(wp.last[2] - wp.ty) > wp.tol
       THEN /\ wp' = [wp EXCEPT !.pc = "done", !.ok = FALSE]
            /\ clk' = clk
       ELSE /\ wp' = [wp EXCEPT !.pc = "loop"]
            /\ clk' = Advance(LoopSleep)
    /\ sc' = IdleCall
    /\ g' = Consumed
    /\ UNCHANGED <<ctl, rx, cn, mv, wt, env, scn, ini, ps, mp, rc, sd>>

PollNext ==
    \/ WP_Loop
    \/ WP_Polled
    \/ WP_Status

----------------------------------------------------------------------------
(* _safe_shutdown_after_scan                                               *)

\* issued: the wrappers called so far, with their argument.
\* hook: the termination hook that is running ("controller", "scanner"),
\* if one is; oks: what the wrappers it called returned; wrote: the
\* commands it wrote a frame for; was: the instance was connected when the
\* hook began.
IdleShutdown ==
    [pc |-> "idle", by |-> "none", step |-> 0, issued |-> <<>>,
     hook |-> "none", oks |-> <<>>, wrote |-> {}, was |-> FALSE]

ShutdownCall(by) == [IdleShutdown EXCEPT !.pc = "call", !.by = by, !.step = 1]

\* Lines 152-170 with the mode switched before the motors are disabled.
ShutdownScriptModeFirst ==
    << <<"stop", 0, StopPause>>, <<"set_mode", MODE_JOYSTICK, 0>>,
       <<"disable_motors", 0, DisablePause>> >>

\* Lines 152-170: the wrappers called, with their argument and the sleep
\* that follows.
ShutdownScript ==
    << <<"stop", 0, StopPause>>, <<"disable_motors", 0, DisablePause>>,
       <<"set_mode", MODE_JOYSTICK, 0>> >>

SD_Call ==
    /\ sd.pc = "call"
    /\ sc.pc = "idle"
    /\ sc' = WrapperCall("sd", ShutdownScript[sd.step][1],
                         ShutdownScript[sd.step][2], 0)
    /\ sd' = [sd EXCEPT !.pc = "wait",
                        !.issued = Append(@, <<ShutdownScript[sd.step][1],
                                               ShutdownScript[sd.step][2]>>)]
    /\ UNCHANGED <<ctl, rx, clk, cn, mv, wt, env, scn, ini, ps, mp, rc, wp, g>>

\* What the wrappers return is not looked at.
SD_Ret ==
    /\ sd.pc = "wait"
    /\ sc.pc = "done"
    /\ sc.by = "sd"
    /\ clk' = Advance(ShutdownScript[sd.step][3])
    /\ sd' = IF sd.step = Len(ShutdownScript)
             THEN [sd EXCEPT !.pc = "done"]
             ELSE [sd EXCEPT !.pc = "call", !.step = @ + 1]
    /\ sc' = IdleCall
    /\ g' = Consumed
    /\ UNCHANGED <<ctl, rx, cn, mv, wt, env, scn, ini, ps, mp, rc, wp>>

ShutdownNext ==
    \/ SD_Call
    \/ SD_Ret

----------------------------------------------------------------------------
(* safe_shutdown: the termination hooks of the controller and the scanner  *)

\* motor_controller.py lines 104-120 and simple_scanner.py lines 110-134:
\* the wrappers a hook calls, with their argument and the sleep that
\* follows.  The controller's hook asks its two flags; the scanner's hook
\* asks nothing.
HookScript(hook) ==
    LET stop == << <<"stop", 0, StopPause>> >>
        disable == << <<"disable_motors", 0, DisablePause>> >>
        mode == << <<"set_mode", MODE_JOYSTICK, ModePause>> >>
    IN  IF hook = "scanner"
        THEN stop \o disable \o mode
        ELSE stop
             \o (IF ctl.auto_disable_on_disconnect THEN disable ELSE <<>>)
             \o (IF ctl.auto_switch_to_joystick THEN mode ELSE <<>>)

\* motor_controller.py line 101 and simple_scanner.py lines 107-110: the
\* controller's hook does nothing when the controller is not connected; the
\* scanner's hook goes on whatever connection_status is.
HookCall(hook) ==
    IF hook = "controller" /\ ~ctl.connected
    THEN [IdleShutdown EXCEPT !.pc = "hk_done", !.hook = hook]
    ELSE [IdleShutdown EXCEPT
            !.pc = "hk_call", !.hook = hook, !.step = 1,
            !.was = IF hook = "controller" THEN ctl.connected
                    ELSE scn.connection_status]

HK_Call ==
    /\ sd.pc = "hk_call"
    /\ sc.pc = "idle"
    /\ sc' = WrapperCall("hk", HookScript(sd.hook)[sd.step][1],
                         HookScript(sd.hook)[sd.step][2], 0)
    /\ sd' = [sd EXCEPT !.pc = "hk_wait",
                        !.issued = Append(@, <<HookScript(sd.hook)[sd.step][1],
                                               HookScript(sd.hook)[sd.step][2]>>)]
    /\ UNCHANGED <<ctl, rx, clk, cn, mv, wt, env, scn, ini, ps, mp, rc, wp, g>>

\* What a wrapper returns is not looked at and the hook has no early exit,
\* with the hook given up at the first wrapper that returns False.
HK_RetStopsAtFailure ==
    /\ sd.pc = "hk_wait"
    /\ sc.pc = "done"
    /\ sc.by = "hk"
    /\ clk' = Advance(HookScript(sd.hook)[sd.step][3])
    /\ sd' = [sd EXCEPT
                 !.pc = IF ~sc.ok THEN "hk_done"
                        ELSE IF sd.step = Len(HookScript(sd.hook))
                             THEN "hk_close" ELSE "hk_call",
                 !.step = IF sd.step = Len(HookScript(sd.hook)) THEN @ ELSE @ + 1,
                 !.oks = Append(@, sc.ok),
                 !.wrote = IF sc.sent > 0 THEN @ \cup {sc.cmd} ELSE @]
    /\ sc' = IdleCall
    /\ g' = Consumed
    /\ UNCHANGED <<ctl, rx, cn, mv, wt, env, scn, ini, ps, mp, rc, wp>>

\* What a wrapper returns is not looked at; after the last one the hook
\* flushes and disconnects.
HK_Ret ==
    /\ sd.pc = "hk_wait"
    /\ sc.pc = "done"
    /\ sc.by = "hk"
    /\ clk' = Advance(HookScript(sd.hook)[sd.step][3])
    /\ sd' = [sd EXCEPT
                 !.pc = IF sd.step = Len(HookScript(sd.hook))
                        THEN "hk_close" ELSE "hk_call",
                 !.step = IF sd.step = Len(HookScript(sd.hook)) THEN @ ELSE @ + 1,
                 !.oks = Append(@, sc.ok),
                 !.wrote = IF sc.sent > 0 THEN @ \cup {sc.cmd} ELSE @]
    /\ sc' = IdleCall
    /\ g' = Consumed
    /\ UNCHANGED <<ctl, rx, cn, mv, wt, env, scn, ini, ps, mp, rc, wp>>

\* motor_controller.py lines 123-126 and simple_scanner.py lines 137-141,
\* 234-238: the buffers are flushed (no frame is pending between two
\* commands) and the controller is disconnected; the scanner's hook clears
\* connection_status.
HK_Close ==
    /\ sd.pc = "hk_close"
    /\ ctl' = Disconnected(ctl)
    /\ scn' = IF sd.hook = "scanner"
              THEN [scn EXCEPT !.connection_status = FALSE] ELSE scn
    /\ sd' = [sd EXCEPT !.pc = "hk_done"]
    /\ UNCHANGED <<rx, clk, sc, cn, mv, wt, env, ini, ps, mp, rc, wp, g>>

----------------------------------------------------------------------------
(* _attempt_recovery                                                       *)

\* phase: 1 is the soft reset, 2 the re-home; extended: extended_timeout
\* has been assigned.
\* moved: the last move_to returned True; sent: the calls of set_speed,
\* set_acceleration (with their argument) and move_to made so far;
\* raised: an exception was raised inside the try block of line 360;
\* speed, accel: what the last SetSpeed and the last SetAccel frame written
\* for this recovery carry (0: no such frame was written).
IdleRecovery ==
    [pc |-> "idle", by |-> "none", x |-> 0, y |-> 0, step |-> 0, phase |-> 0,
     extended |-> FALSE, ok |-> FALSE, moved |-> FALSE, sent |-> <<>>,
     raised |-> FALSE, speed |-> 0, accel |-> 0]

RecoveryCall(by, x, y) ==
    [IdleRecovery EXCEPT !.pc = "call", !.by = by, !.x = x, !.y = y,
                         !.step = 1, !.phase = 1]

\* Lines 362-389 and 404-412, 433-441 with the halved values sent again
\* where the configured ones are (steps 8 and 9).
RecoveryScriptStaysSlow ==
    << <<"stop", 0, 0, StopPause>>,
       <<"enable_motors", 0, 0, StopPause>>,
       <<"set_speed", MotorSpeed \div 2, MotorSpeed \div 2, 0>>,
       <<"set_acceleration", MotorAccel \div 2, MotorAccel \div 2, 0>>,
       <<"get_status", 0, 0, 0>>,
       <<"move_by", NudgeSteps, NudgeSteps, StopPause>>,
       <<"move_by", -NudgeSteps, -NudgeSteps, StopPause>>,
       <<"set_speed", MotorSpeed \div 2, MotorSpeed \div 2, 0>>,
       <<"set_acceleration", MotorAccel \div 2, MotorAccel \div 2, 0>> >>

\* Lines 362-389 (steps 1 to 7) and 404-412, 433-441 (steps 8 and 9): the
\* wrappers called, with their arguments and the sleep that follows.
RecoveryScript ==
    << <<"stop", 0, 0, StopPause>>,
       <<"enable_motors", 0, 0, StopPause>>,
       <<"set_speed", MotorSpeed \div 2, MotorSpeed \div 2, 0>>,
       <<"set_acceleration", MotorAccel \div 2, MotorAccel \div 2, 0>>,
       <<"get_status", 0, 0, 0>>,
       <<"move_by", NudgeSteps, NudgeSteps, StopPause>>,
       <<"move_by", -NudgeSteps, -NudgeSteps, StopPause>>,
       <<"set_speed", MotorSpeed, MotorSpeed, 0>>,
       <<"set_acceleration", MotorAccel, MotorAccel, 0>> >>

RC_Call ==
    /\ rc.pc = "call"
    /\ sc.pc = "idle"
    /\ sc' = WrapperCall("rc", RecoveryScript[rc.step][1],
                         RecoveryScript[rc.step][2], RecoveryScript[rc.step][3])
    /\ rc' = [rc EXCEPT !.pc = "wait",
                        !.sent = IF RecoveryScript[rc.step][1]
                                      \in {"set_speed", "set_acceleration"}
                                 THEN Append(@, <<RecoveryScript[rc.step][1],
                                                  RecoveryScript[rc.step][2]>>)
                                 ELSE @]
    /\ UNCHANGED <<ctl, rx, clk, cn, mv, wt, env, scn, ini, ps, mp, wp, sd, g>>

\* What the wrappers return is not looked at; after step 7 the target is
\* tried, after step 9 the recovery has succeeded.
RC_Ret ==
    /\ rc.pc = "wait"
    /\ sc.pc = "done"
    /\ sc.by = "rc"
    /\ clk' = Advance(RecoveryScript[rc.step][4])
    /\ LET r == [rc EXCEPT
                   !.speed = IF sc.via = "set_speed" /\ sc.sent > 0
                             THEN sc.p1 ELSE @,
                   !.accel = IF sc.via = "set_acceleration" /\ sc.sent > 0
                             THEN sc.p1 ELSE @]
       IN  rc' = CASE rc.step = 7 -> [r EXCEPT !.pc = "move"]
                   [] rc.step = 9 -> [r EXCEPT !.pc = "done", !.ok = TRUE]
                   [] OTHER -> [r EXCEPT !.pc = "call", !.step = @ + 1]
    /\ sc' = IdleCall
    /\ g' = Consumed
    /\ UNCHANGED <<ctl, rx, cn, mv, wt, env, scn, ini, ps, mp, wp, sd>>

\* Lines 392 and 423.
RC_Move ==
    /\ rc.pc = "move"
    /\ mv.pc = "idle"
    /\ mv' = MoveCall("rc", Target(rc.x, rc.y, TRUE, TRUE))
    /\ rc' = [rc EXCEPT !.pc = "moving",
                        !.sent = Append(@, <<"move_to", 0>>)]
    /\ UNCHANGED <<ctl, rx, clk, sc, cn, wt, env, scn, ini, ps, mp, wp, sd, g>>

\* Lines 392-400 and 423-429 with a handler that returns True.
RC_MovedHidesTheError ==
    /\ rc.pc = "moving"
    /\ mv.pc = "done"
    /\ mv.by = "rc"
    /\ IF mv.ok /\ (rc.phase = 1 \/ rc.extended)
       THEN /\ rc' = [rc EXCEPT !.pc = "waiting", !.extended = TRUE,
                                !.moved = TRUE]
            /\ wp' = PollCall("rc", rc.x, rc.y, ExtendedTimeout,
                              IF rc.phase = 1 THEN PositionTolerance * 2
                              ELSE PositionTolerance)
            /\ clk' = PollClocks
       ELSE /\ rc' = IF rc.phase = 1
                     THEN [rc EXCEPT !.pc = "home", !.moved = mv.ok]
                     ELSE [rc EXCEPT !.pc = "done", !.ok = mv.ok,
                                     !.moved = mv.ok, !.raised = mv.ok]
            /\ UNCHANGED <<wp, clk>>
    /\ mv' = IdleMove
    /\ g' = Forgotten
    /\ UNCHANGED <<ctl, rx, sc, cn, wt, env, scn, ini, ps, mp, sd>>

\* Lines 392-400 and 423-429: after a move that succeeded the position is
\* waited for; extended_timeout is assigned in the soft reset only, and
\* reading it unassigned in the re-home raises; the handler of lines
\* 448-450 returns False.
RC_Moved ==
    /\ rc.pc = "moving"
    /\ mv.pc = "done"
    /\ mv.by = "rc"
    /\ IF mv.ok /\ (rc.phase = 1 \/ rc.extended)
       THEN /\ rc' = [rc EXCEPT !.pc = "waiting", !.extended = TRUE,
                                !.moved = TRUE]
            /\ wp' = PollCall("rc", rc.x, rc.y, ExtendedTimeout,
                              IF rc.phase = 1 THEN PositionTolerance * 2
                              ELSE PositionTolerance)
            /\ clk' = PollClocks
       ELSE /\ rc' = IF rc.phase = 1
                     THEN [rc EXCEPT !.pc = "home", !.moved = mv.ok]
                     ELSE [rc EXCEPT !.pc = "done", !.ok = FALSE,
                                     !.moved = mv.ok, !.raised = mv.ok]
            /\ UNCHANGED <<wp, clk>>
    /\ mv' = IdleMove
    /\ g' = Forgotten
    /\ UNCHANGED <<ctl, rx, sc, cn, wt, env, scn, ini, ps, mp, sd>>

\* Lines 395-416 and 424-446.
RC_Waited ==
    /\ rc.pc = "waiting"
    /\ wp.pc = "done"
    /\ wp.by = "rc"
    /\ rc' = IF wp.ok THEN [rc EXCEPT !.pc = "call", !.step = 8]
             ELSE IF rc.phase = 1 THEN [rc EXCEPT !.pc = "home"]
             ELSE [rc EXCEPT !.pc = "done", !.ok = FALSE]
    /\ wp' = IdlePoll
    /\ clk' = [clk EXCEPT !.wp = 0, !.poll = 0]
    /\ UNCHANGED <<ctl, rx, sc, cn, mv, wt, env, scn, ini, ps, mp, sd, g>>

\* Line 419.
RC_Home ==
    /\ rc.pc = "home"
    /\ sc.pc = "idle"
    /\ sc' = WrapperCall("rc_home", "home", 0, 0)
    /\ rc' = [rc EXCEPT !.pc = "homing", !.phase = 2]
    /\ UNCHANGED <<ctl, rx, clk, cn, mv, wt, env, scn, ini, ps, mp, wp, sd, g>>

\* Lines 419-423 and 445-446.
RC_Homed ==
    /\ rc.pc = "homing"
    /\ sc.pc = "done"
    /\ sc.by = "rc_home"
    /\ IF sc.ok
       THEN /\ rc' = [rc EXCEPT !.pc = "move"]
            /\ clk' = Advance(HomePause)
       ELSE /\ rc' = [rc EXCEPT !.pc = "done", !.ok = FALSE]
            /\ clk' = clk
    /\ sc' = IdleCall
    /\ g' = Consumed
    /\ UNCHANGED <<ctl, rx, cn, mv, wt, env, scn, ini, ps, mp, wp, sd>>

RecoveryNext ==
    \/ RC_Call
    \/ RC_Ret
    \/ RC_Move
    \/ RC_Moved
    \/ RC_Waited
    \/ RC_Home
    \/ RC_Homed

----------------------------------------------------------------------------
(* move_to_position                                                        *)

\* failed: how many calls of move_to returned False; recoveries: how many
\* times the recovery was started; speed, accel: what the last SetSpeed and
\* the last SetAccel frame written during the call carry (0: none written).
IdleMoveToPosition ==
    [pc |-> "idle", by |-> "none", x |-> 0, y |-> 0, attempt |-> 0,
     ok |-> FALSE, failed |-> 0, recoveries |-> 0, speed |-> 0, accel |-> 0]

MoveToPositionCall(by, x, y) ==
    [IdleMoveToPosition EXCEPT !.pc = "try", !.by = by, !.x = x, !.y = y]

\* Lines 329-331 and 346-347.
MP_Try ==
    /\ mp.pc = "try"
    /\ mv.pc = "idle"
    /\ IF mp.attempt < RetryAttempts
       THEN /\ mv' = MoveCall("mp", Target(mp.x, mp.y, TRUE, TRUE))
            /\ mp' = [mp EXCEPT !.pc = "moving"]
       ELSE /\ mp' = [mp EXCEPT !.pc = "done", !.ok = FALSE]
            /\ mv' = mv
    /\ UNCHANGED <<ctl, rx, clk, sc, cn, wt, env, scn, ini, ps, rc, wp, sd, g>>

\* Lines 331-342 with the recovery tried after every attempt that failed.
MP_MovedRecoversAlways ==
    /\ mp.pc = "moving"
    /\ mv.pc = "done"
    /\ mv.by = "mp"
    /\ IF mv.ok
       THEN /\ mp' = [mp EXCEPT !.pc = "done", !.ok = TRUE]
            /\ rc' = rc
       ELSE IF scn.recovery_enabled
       THEN /\ mp' = [mp EXCEPT !.pc = "recovering", !.failed = @ + 1,
                                !.recoveries = @ + 1]
            /\ rc' = RecoveryCall("mp", mp.x, mp.y)
       ELSE /\ mp' = [mp EXCEPT !.pc = "try", !.attempt = @ + 1,
                                !.failed = @ + 1]
            /\ rc' = rc
    /\ mv' = IdleMove
    /\ g' = Forgotten
    /\ UNCHANGED <<ctl, rx, clk, sc, cn, wt, env, scn, ini, ps, wp, sd>>

\* Lines 331-342: a move that failed is tried again; after the last attempt
\* the recovery is tried when it is enabled.
MP_Moved ==
    /\ mp.pc = "moving"
    /\ mv.pc = "done"
    /\ mv.by = "mp"
    /\ IF mv.ok
       THEN /\ mp' = [mp EXCEPT !.pc = "done", !.ok = TRUE]
            /\ rc' = rc
       ELSE IF mp.attempt = RetryAttempts - 1 /\ scn.recovery_enabled
       THEN /\ mp' = [mp EXCEPT !.pc = "recovering", !.failed = @ + 1,
                                !.recoveries = @ + 1]
            /\ rc' = RecoveryCall("mp", mp.x, mp.y)
       ELSE /\ mp' = [mp EXCEPT !.pc = "try", !.attempt = @ + 1,
                                !.failed = @ + 1]
            /\ rc' = rc
    /\ mv' = IdleMove
    /\ g' = Forgotten
    /\ UNCHANGED <<ctl, rx, clk, sc, cn, wt, env, scn, ini, ps, wp, sd>>

\* Lines 342-347.
MP_Recovered ==
    /\ mp.pc = "recovering"
    /\ rc.pc = "done"
    /\ rc.by = "mp"
    /\ mp' = IF rc.ok
             THEN [mp EXCEPT !.pc = "done", !.ok = TRUE,
                             !.speed = rc.speed, !.accel = rc.accel]
             ELSE [mp EXCEPT !.pc = "try", !.attempt = @ + 1,
                             !.speed = rc.speed, !.accel = rc.accel]
    /\ rc' = IdleRecovery
    /\ UNCHANGED <<ctl, rx, clk, sc, cn, mv, wt, env, scn, ini, ps, wp, sd, g>>

MoveToPositionNext ==
    \/ MP_Try
    \/ MP_Moved
    \/ MP_Recovered

----------------------------------------------------------------------------
(* initialize_scan                                                         *)

\* sent: the wrappers called so far.
IdleInitialize ==
    [pc |-> "idle", step |-> 0, ok |-> FALSE, sent |-> <<>>]

\* Lines 282-306: the wrappers called, with their arguments; each one that
\* fails ends initialize_scan.
InitializeScript ==
    << <<"set_mode", MODE_SERIAL, 0>>, <<"enable_motors", 0, 0>>,
       <<"set_speed", MotorSpeed, MotorSpeed>>,
       <<"set_acceleration", MotorAccel, MotorAccel>>, <<"home", 0, 0>> >>

\* Lines 267-272: the parameters are saved before any step is tried.
ParamsSaved(s, x_range, y_range, x_steps, y_steps) ==
    [s EXCEPT !.x_range = x_range, !.y_range = y_range,
              !.x_steps = x_steps, !.y_steps = y_steps]

\* Lines 309-315: the progress of a scanner that was initialized.
ProgressReset(s) ==
    [s EXCEPT !.completed_points = 0,
              !.total_points = s.x_steps * s.y_steps,
              !.current_position = <<0, 0>>, !.points_done = <<>>,
              !.inited = TRUE]

\* Lines 267-280: initialize_scan(x_range, y_range, x_steps, y_steps) on a
\* scanner that is connected.
InitializeCall(x_range, y_range, x_steps, y_steps) ==
    /\ scn' = ParamsSaved(scn, x_range, y_range, x_steps, y_steps)
    /\ ini' = [IdleInitialize EXCEPT !.pc = "call", !.step = 1]

IS_Call ==
    /\ ini.pc = "call"
    /\ sc.pc = "idle"
    /\ sc' = WrapperCall("is", InitializeScript[ini.step][1],
                         InitializeScript[ini.step][2],
                         InitializeScript[ini.step][3])
    /\ ini' = [ini EXCEPT !.pc = "wait",
                          !.sent = Append(@, InitializeScript[ini.step][1])]
    /\ UNCHANGED <<ctl, rx, clk, cn, mv, wt, env, scn, ps, mp, rc, wp, sd, g>>

\* Lines 282-318: a step that failed returns False; after the last step the
\* progress is reset and True is returned.
IS_Ret ==
    /\ ini.pc = "wait"
    /\ sc.pc = "done"
    /\ sc.by = "is"
    /\ IF ~sc.ok
       THEN /\ ini' = [ini EXCEPT !.pc = "done", !.ok = FALSE]
            /\ scn' = scn
       ELSE IF ini.step = Len(InitializeScript)
       THEN /\ ini' = [ini EXCEPT !.pc = "done", !.ok = TRUE]
            /\ scn' = ProgressReset(scn)
       ELSE /\ ini' = [ini EXCEPT !.pc = "call", !.step = @ + 1]
            /\ scn' = scn
    /\ sc' = IdleCall
    /\ g' = Consumed
    /\ UNCHANGED <<ctl, rx, clk, cn, mv, wt, env, ps, mp, rc, wp, sd>>

InitializeNext ==
    \/ IS_Call
    \/ IS_Ret

----------------------------------------------------------------------------
(* perform_scan                                                            *)

\* Lines 67-88: the scanner as __init__ leaves it (points are <<row, col>>),
\* with the two safety flags of its config; inited: an initialize_scan has
\* returned True; configured: the key of the last configure() and whether
\* it raised.
NewScanner ==
    [x_steps |-> 0, y_steps |-> 0, x_range |-> <<0, 0>>, y_range |-> <<0, 0>>,
     completed_points |-> 0, total_points |-> 0,
     current_position |-> <<0, 0>>, points_done |-> <<>>,
     recovery_enabled |-> TRUE, inited |-> FALSE,
     connection_status |-> FALSE, auto_disable_on_exit |-> TRUE,
     auto_return_to_joystick |-> TRUE,
     configured |-> [key |-> "none", raised |-> FALSE]]

\* The scanner after a connect() that returned True.
ConnectedScanner == [NewScanner EXCEPT !.connection_status = TRUE]

\* visited: the points move_to_position was called for; arrived: the
\* points it returned True for; called: the points
\* the data callback was called for; done0: points_done when the plan was
\* made; how: the return statement reached ("refused" line 459, "move"
\* line 529, "complete" line 568, "raised" line 577); shut: the wrappers
\* the safe shutdown has called.
IdleScan ==
    [pc |-> "idle", resume |-> FALSE, cb |-> FALSE, plan |-> <<>>, k |-> 0,
     processed |-> 0, total |-> 0, actual |-> <<0, 0>>, ok |-> FALSE,
     done0 |-> <<>>, visited |-> <<>>, arrived |-> <<>>, called |-> <<>>,
     how |-> "none", shut |-> <<>>]

IdleScanner ==
    /\ ini = IdleInitialize
    /\ ps = IdleScan
    /\ mp = IdleMoveToPosition
    /\ rc = IdleRecovery
    /\ wp = IdlePoll
    /\ sd = IdleShutdown

Range(seq) == { seq[i] : i \in 1..Len(seq) }

Reverse(seq) == [i \in 1..Len(seq) |-> seq[Len(seq) + 1 - i]]

\* Lines 501-502: int(range[0] + (range[1] - range[0]) * idx / max(1, steps - 1)).
GridPos(range, idx, steps) ==
    Trunc(range[1] * Max(1, steps - 1) + (range[2] - range[1]) * idx,
          Max(1, steps - 1))

\* Lines 498-507 with every row kept in the order it was built in.
RowPositionsRaster(s, y_idx) ==
    [i \in 1..s.x_steps |->
        [x |-> GridPos(s.x_range, i - 1, s.x_steps),
         y |-> GridPos(s.y_range, y_idx, s.y_steps),
         col |-> i - 1, row |-> y_idx]]

\* Lines 498-507: the positions of row y_idx, reversed in every other row.
RowPositions(s, y_idx) ==
    LET row == [i \in 1..s.x_steps |->
                   [x |-> GridPos(s.x_range, i - 1, s.x_steps),
                    y |-> GridPos(s.y_range, y_idx, s.y_steps),
                    col |-> i - 1, row |-> y_idx]]
    IN  IF y_idx % 2 = 1 THEN Reverse(row) ELSE row

RECURSIVE ScanPositions(_, _)
\* Lines 496-509: the rows from y_idx on, one after the other.
ScanPositions(s, y_idx) ==
    IF y_idx >= s.y_steps THEN <<>>
    ELSE RowPositions(s, y_idx) \o ScanPositions(s, y_idx + 1)

\* Line 514 with the indices taken in the order of the tuple.
UnvisitedSwapped(p, done) == <<p.col, p.row>> \notin done

\* Line 514: (pos[3], pos[2]) not in points_done.
Unvisited(p, done) == <<p.row, p.col>> \notin done

\* Lines 512-514 with the points already done kept in the plan.
RemainingIgnoresDone(positions, resume, done) == positions

\* Lines 512-514.
Remaining(positions, resume, done) ==
    IF resume /\ done # {}
    THEN SelectSeq(positions, LAMBDA p : Unvisited(p, done))
    ELSE positions

\* Lines 457-487: a scanner that was not initialized refuses; progress is
\* reset unless the scan resumes; serial mode is asked for.
PS_Entry ==
    /\ ps.pc = "entry"
    /\ sc.pc = "idle"
    /\ IF scn.x_steps = 0 \/ scn.y_steps = 0
       THEN /\ ps' = [ps EXCEPT !.pc = "done", !.ok = FALSE,
                                !.how = "refused"]
            /\ UNCHANGED <<scn, ini, sc>>
       ELSE /\ scn' = [scn EXCEPT
                         !.total_points = scn.x_steps * scn.y_steps,
                         !.completed_points = IF ps.resume THEN @ ELSE 0,
                         !.points_done = IF ps.resume THEN @ ELSE <<>>]
            /\ ps' = [ps EXCEPT !.pc = "mode", !.done0 = scn'.points_done,
                                !.processed = scn'.completed_points]
            /\ sc' = WrapperCall("ps_mode", "set_mode", MODE_SERIAL, 0)
    /\ UNCHANGED <<ctl, rx, clk, cn, mv, wt, env, ini, mp, rc, wp, sd, g>>

\* Lines 487-488: what set_mode returns is not looked at.
PS_Mode ==
    /\ ps.pc = "mode"
    /\ sc.pc = "done"
    /\ sc.by = "ps_mode"
    /\ ps' = [ps EXCEPT !.pc = "enable"]
    /\ sc' = WrapperCall("ps_enable", "enable_motors", 0, 0)
    /\ g' = Consumed
    /\ UNCHANGED <<ctl, rx, clk, cn, mv, wt, env, scn, ini, mp, rc, wp, sd>>

\* Lines 488-517: what enable_motors returns is not looked at; the plan is
\* made and the count of processed points starts at 0.
PS_Enabled ==
    /\ ps.pc = "enable"
    /\ sc.pc = "done"
    /\ sc.by = "ps_enable"
    /\ LET plan == Remaining(ScanPositions(scn, 0), ps.resume, Range(ps.done0))
       IN  ps' = [ps EXCEPT !.pc = "loop", !.plan = plan, !.k = 1,
                            !.total = Len(plan), !.processed = 0]
    /\ clk' = Advance(StartPause)
    /\ sc' = IdleCall
    /\ g' = Consumed
    /\ UNCHANGED <<ctl, rx, cn, mv, wt, env, scn, ini, mp, rc, wp, sd>>

\* Lines 520-524 and 564-567: the next point of the plan is moved to; after
\* the last one the motors are shut down.
PS_Next ==
    /\ ps.pc = "loop"
    /\ IF ps.k <= Len(ps.plan)
       THEN /\ mp' = MoveToPositionCall("ps", ps.plan[ps.k].x, ps.plan[ps.k].y)
            /\ ps' = [ps EXCEPT !.pc = "moving",
                                !.visited = Append(@, <<ps.plan[ps.k].row,
                                                        ps.plan[ps.k].col>>)]
            /\ sd' = sd
       ELSE /\ sd' = ShutdownCall("ps")
            /\ ps' = [ps EXCEPT !.pc = "shutdown", !.ok = TRUE,
                                !.how = "complete"]
            /\ mp' = mp
    /\ UNCHANGED <<ctl, rx, clk, sc, cn, mv, wt, env, scn, ini, rc, wp, g>>

\* Lines 526-532 with a failed point skipped: the scan goes on to the next
\* point of the plan.
PS_MovedSkips ==
    /\ ps.pc = "moving"
    /\ mp.pc = "done"
    /\ mp.by = "ps"
    /\ IF mp.ok
       THEN /\ ps' = [ps EXCEPT !.pc = "pos",
                                !.arrived = Append(@, <<ps.plan[ps.k].row,
                                                        ps.plan[ps.k].col>>)]
            /\ sc' = WrapperCall("ps_pos", "get_status", 0, 0)
       ELSE /\ ps' = IF ps.k < Len(ps.plan)
                     THEN [ps EXCEPT !.pc = "loop", !.k = @ + 1]
                     ELSE [ps EXCEPT !.pc = "done", !.ok = FALSE,
                                     !.how = "move"]
            /\ sc' = sc
    /\ mp' = IdleMoveToPosition
    /\ UNCHANGED <<ctl, rx, clk, cn, mv, wt, env, scn, ini, rc, wp, sd, g>>

\* Lines 526-532: a move that failed ends the scan; otherwise the position
\* is read.
PS_Moved ==
    /\ ps.pc = "moving"
    /\ mp.pc = "done"
    /\ mp.by = "ps"
    /\ IF mp.ok
       THEN /\ ps' = [ps EXCEPT !.pc = "pos",
                                !.arrived = Append(@, <<ps.plan[ps.k].row,
                                                        ps.plan[ps.k].col>>)]
            /\ sc' = WrapperCall("ps_pos", "get_status", 0, 0)
            /\ scn' = scn
       ELSE /\ ps' = [ps EXCEPT !.pc = "done", !.ok = FALSE, !.how = "move"]
            /\ scn' = [scn EXCEPT !.current_position =
                                     <<ps.plan[ps.k].row, ps.plan[ps.k].col>>]
            /\ sc' = sc
    /\ mp' = IdleMoveToPosition
    /\ UNCHANGED <<ctl, rx, clk, cn, mv, wt, env, ini, rc, wp, sd, g>>

\* Lines 532-550 and 570-576 with the progress updated before the callback
\* is called.
PS_AcquireRecordsFirst(raises) ==
    /\ ps.pc = "pos"
    /\ sc.pc = "done"
    /\ sc.by = "ps_pos"
    /\ raises => ps.cb
    /\ LET point == <<ps.plan[ps.k].row, ps.plan[ps.k].col>>
           p == [ps EXCEPT !.actual = sc.status.position,
                           !.called = IF ps.cb THEN Append(@, point) ELSE @]
       IN  IF raises
           THEN /\ ps' = [p EXCEPT !.pc = "shutdown", !.ok = FALSE,
                                   !.how = "raised"]
                /\ sd' = ShutdownCall("ps")
                /\ scn' = [scn EXCEPT
                             !.completed_points = ps.processed + 1,
                             !.points_done = Append(@, point),
                             !.current_position = point]
           ELSE /\ ps' = [p EXCEPT !.pc = "loop", !.k = @ + 1,
                                   !.processed = @ + 1]
                /\ scn' = [scn EXCEPT
                             !.completed_points = ps.processed + 1,
                             !.points_done = Append(@, point),
                             !.current_position = point]
                /\ sd' = sd
    /\ clk' = Advance(StabilizationDelay)
    /\ sc' = IdleCall
    /\ g' = Consumed
    /\ UNCHANGED <<ctl, rx, cn, mv, wt, env, ini, mp, rc, wp>>

\* Lines 532-550 and 570-576: after the delay the callback, if there is
\* one, is called, and the point is recorded; a callback that raises ends
\* the scan with the motors shut down.
PS_Acquire(raises) ==
    /\ ps.pc = "pos"
    /\ sc.pc = "done"
    /\ sc.by = "ps_pos"
    /\ raises => ps.cb
    /\ LET point == <<ps.plan[ps.k].row, ps.plan[ps.k].col>>
           p == [ps EXCEPT !.actual = sc.status.position,
                           !.called = IF ps.cb THEN Append(@, point) ELSE @]
       IN  IF raises
           THEN /\ ps' = [p EXCEPT !.pc = "shutdown", !.ok = FALSE,
                                   !.how = "raised"]
                /\ sd' = ShutdownCall("ps")
                /\ scn' = scn
           ELSE /\ ps' = [p EXCEPT !.pc = "loop", !.k = @ + 1,
                                   !.processed = @ + 1]
                /\ scn' = [scn EXCEPT
                             !.completed_points = ps.processed + 1,
                             !.points_done = Append(@, point),
                             !.current_position = point]
                /\ sd' = sd
    /\ clk' = Advance(StabilizationDelay)
    /\ sc' = IdleCall
    /\ g' = Consumed
    /\ UNCHANGED <<ctl, rx, cn, mv, wt, env, ini, mp, rc, wp>>

\* Lines 567-568 and 576-577.
PS_Shutdown ==
    /\ ps.pc = "shutdown"
    /\ sd.pc = "done"
    /\ sd.by = "ps"
    /\ ps' = [ps EXCEPT !.pc = "done", !.shut = sd.issued]
    /\ sd' = IdleShutdown
    /\ UNCHANGED <<ctl, rx, clk, sc, cn, mv, wt, env, scn, ini, mp, rc, wp, g>>

ScanNext ==
    \/ PS_Entry
    \/ PS_Mode
    \/ PS_Enabled
    \/ PS_Next
    \/ PS_Moved
    \/ \E raises \in BOOLEAN : PS_Acquire(raises)
    \/ PS_Shutdown

----------------------------------------------------------------------------
(* The controller driven through its wrappers                              *)

Init ==
    /\ ctl = InitCtl
    /\ rx = BlankRx
    /\ clk = IdleClocks
    /\ sc = IdleCall
    /\ cn = IdleConnect
    /\ mv = IdleMove
    /\ wt = IdleWait
    /\ scn = NewScanner
    /\ IdleScanner
    /\ env = [frames |-> "free", late |-> TRUE, gaps |-> TRUE, link |-> "any",
              changes |-> 0, called |-> FALSE, miss |-> 0, fault |-> "any"]
    /\ g = InitHistory

Next ==
    \/ EngineNext
    \/ ConnectNext
    \/ \E c \in TopCalls : TopCall(c)
    \/ TopSendStrict
    \/ TopReturn
    \/ TopConnect
    \/ TopConnectReturn
    \/ TopDisconnect

Spec == Init /\ [][Next]_vars

----------------------------------------------------------------------------
(* The motion planner driven by move_to                                    *)

\* The targets the caller asks for: a large and a small move on X alone,
\* and a large move on both axes.
FarTarget == 100
NearTarget == 10
DiagonalTarget == 50

\* Where the cache may have the Y axis when the move begins.
OffAxis == 30

MoveTargets ==
    { Target(FarTarget, 0, TRUE, FALSE), Target(NearTarget, 0, TRUE, FALSE),
      Target(DiagonalTarget, DiagonalTarget, TRUE, TRUE) }

TopMoveTo(t) ==
    /\ Idle
    /\ ~env.called
    /\ mv' = MoveCall("top", t)
    /\ env' = [env EXCEPT !.called = TRUE]
    /\ UNCHANGED <<ctl, rx, clk, sc, cn, wt, scanner, g>>

\* The link goes down or comes back while a command waits for its answer.
LinkChange ==
    /\ env.changes > 0
    /\ \/ sc.pc = "wait"
       \/ sc.pc = "send" /\ ~MayWrite
    /\ env' = [env EXCEPT !.changes = @ - 1,
                          !.link = IF @ = "up" THEN "down" ELSE "up"]
    /\ UNCHANGED <<ctl, rx, clk, sc, cn, mv, wt, scanner, g>>

TopMoveReturn ==
    /\ mv.pc = "done"
    /\ mv.by = "top"
    /\ mv' = IdleMove
    /\ g' = Forgotten
    /\ UNCHANGED <<ctl, rx, clk, sc, cn, wt, outer>>

\* The buffer of a transport that has received the answer to a ping.
ConnectedRx == RxAfter(BlankRx, Frame(RESP_PING, PingLow, 0, NoPayload))

\* A status frame of a device at rest at p.
AtRest(p) == Payload(p, <<0, 0>>, <<0, 0>>, MODE_SERIAL, 0)

\* The controller is connected; it has received no status frame yet, or one
\* of a device at rest off the X axis; its motors are enabled or not.
InitMove ==
    /\ \E enabled \in BOOLEAN, fresh \in BOOLEAN :
          /\ ctl = IF fresh
                   THEN [InitCtl EXCEPT !.connected = TRUE, !.transfer = TRUE,
                                        !.motors_enabled = enabled]
                   ELSE CacheAfter([InitCtl EXCEPT !.connected = TRUE,
                                                   !.transfer = TRUE,
                                                   !.motors_enabled = enabled],
                                   AtRest(<<0, OffAxis>>))
          /\ rx = IF fresh THEN ConnectedRx
                  ELSE RxAfter(ConnectedRx,
                               Frame(RESP_STATUS, 0, 0, AtRest(<<0, OffAxis>>)))
          /\ g = [InitHistory EXCEPT !.ackEnabled = enabled]
    /\ clk = IdleClocks
    /\ sc = IdleCall
    /\ cn = IdleConnect
    /\ mv = IdleMove
    /\ wt = IdleWait
    /\ scn = NewScanner
    /\ IdleScanner
    /\ \E link \in {"up", "down"} :
          env = [frames |-> "move", late |-> FALSE, gaps |-> FALSE,
                 link |-> link, changes |-> MaxLinkChanges,
                 called |-> FALSE, miss |-> 0, fault |-> "any"]

\* Line 627.
RelativeThreshold == 75

\* Line 629 with a threshold that is itself a large move.
IsLargeDeltaFromThreshold(d) ==
    Abs(d[1]) >= RelativeThreshold \/ Abs(d[2]) >= RelativeThreshold

\* Line 629.
IsLargeDelta(d) ==
    Abs(d[1]) > RelativeThreshold \/ Abs(d[2]) > RelativeThreshold

\* The arguments of move_by: a nudge, the threshold on both axes, and one
\* step more than the threshold on either axis.
MoveDeltas ==
    { <<NudgeSteps, NudgeSteps>>, <<RelativeThreshold, -RelativeThreshold>>,
      <<RelativeThreshold + 1, 0>>, <<NudgeSteps, RelativeThreshold + 1>> }

\* Lines 624-658: move_by(x_delta, y_delta) takes the position for a large
\* move, and sends one MoveRelative command for a small one.
TopMoveBy(d) ==
    /\ Idle
    /\ ~env.called
    /\ IF IsLargeDelta(d)
       THEN /\ mv' = [IdleMove EXCEPT !.pc = "by_pos", !.by = "top",
                                      !.via = "move_by", !.rel = d]
            /\ sc' = WrapperCall("mb_pos", "get_status", 0, 0)
       ELSE /\ mv' = [IdleMove EXCEPT !.pc = "by_sent", !.by = "top",
                                      !.via = "move_by", !.rel = d]
            /\ sc' = WrapperCall("mb", "move_by", d[1], d[2])
    /\ env' = [env EXCEPT !.called = TRUE]
    /\ UNCHANGED <<ctl, rx, clk, cn, wt, scanner, g>>

\* Lines 631-638: the target is the position plus the deltas, and move_to
\* is called with it.
MB_Pos ==
    /\ mv.pc = "by_pos"
    /\ sc.pc = "done"
    /\ sc.by = "mb_pos"
    /\ mv' = [mv EXCEPT !.pc = "entry", !.from = sc.status.position,
                        !.x = sc.status.position[1] + mv.rel[1],
                        !.y = sc.status.position[2] + mv.rel[2],
                        !.hx = TRUE, !.hy = TRUE]
    /\ sc' = IdleCall
    /\ g' = Consumed
    /\ UNCHANGED <<ctl, rx, clk, cn, wt, outer>>

\* Line 658: the move is done when there was a response.
MB_Sent ==
    /\ mv.pc = "by_sent"
    /\ sc.pc = "done"
    /\ sc.by = "mb"
    /\ mv' = [mv EXCEPT !.pc = "done", !.ok = sc.ok,
                        !.log = <<IF ~sc.ret.none THEN "accepted" ELSE "refused">>]
    /\ sc' = IdleCall
    /\ g' = Consumed
    /\ UNCHANGED <<ctl, rx, clk, cn, wt, outer>>

NextMove ==
    \/ EngineNext
    \/ WaitNext
    \/ MoveNext
    \/ \E t \in MoveTargets : TopMoveTo(t)
    \/ \E d \in MoveDeltas : TopMoveBy(d)
    \/ MB_Pos
    \/ MB_Sent
    \/ TopMoveReturn
    \/ LinkChange

SpecMove == InitMove /\ [][NextMove]_vars

----------------------------------------------------------------------------
(* The scanner driven by perform_scan                                      *)

\* The grid of the scan: GridSteps points on each axis, over 0..GridSpan.
GridSteps == 2
GridSpan == 50

\* The scanner after initialize_scan(x_range, y_range, x_steps, y_steps).
Initialized ==
    [ConnectedScanner EXCEPT !.x_steps = GridSteps, !.y_steps = GridSteps,
                       !.x_range = <<0, GridSpan>>, !.y_range = <<0, GridSpan>>,
                       !.total_points = GridSteps * GridSteps,
                       !.inited = TRUE]

\* The points of the grid in the order a scan goes through them.
SnakeOrder ==
    [i \in 1..Len(ScanPositions(Initialized, 0)) |->
        <<ScanPositions(Initialized, 0)[i].row,
          ScanPositions(Initialized, 0)[i].col>>]

TopPerformScan(resume, cb) ==
    /\ Idle
    /\ ~env.called
    /\ ps' = [IdleScan EXCEPT !.pc = "entry", !.resume = resume, !.cb = cb]
    /\ env' = [env EXCEPT !.called = TRUE]
    /\ UNCHANGED <<ctl, rx, clk, sc, cn, mv, wt, scn, ini, mp, rc, wp, sd, g>>

\* initialize_scan for the grid, on a scanner that was never asked to.
TopInitializeScan ==
    /\ Idle
    /\ ~env.called
    /\ scn = ConnectedScanner
    /\ InitializeCall(<<0, GridSpan>>, <<0, GridSpan>>, GridSteps, GridSteps)
    /\ UNCHANGED <<ctl, rx, clk, sc, cn, mv, wt, env, ps, mp, rc, wp, sd, g>>

TopInitializeReturn ==
    /\ ini.pc = "done"
    /\ ini' = IdleInitialize
    /\ g' = Forgotten
    /\ UNCHANGED <<ctl, rx, clk, sc, cn, mv, wt, env, scn, ps, mp, rc, wp, sd>>

\* The scanner was never initialized, or it was and an earlier scan has
\* recorded the first points of the grid (none, some or all); the
\* controller is connected, its motors enabled; recovery is enabled or not.
InitScan ==
    /\ ctl = [InitCtl EXCEPT !.connected = TRUE, !.transfer = TRUE,
                             !.motors_enabled = FALSE,
                             !.current_mode = MODE_SERIAL]
    /\ rx = ConnectedRx
    /\ clk = IdleClocks
    /\ sc = IdleCall
    /\ cn = IdleConnect
    /\ mv = IdleMove
    /\ wt = IdleWait
    /\ IdleScanner
    /\ \E n \in 0..(GridSteps * GridSteps), recovery \in BOOLEAN,
          initialized \in BOOLEAN :
          /\ ~initialized => (n = 0 /\ recovery)
          /\ scn = IF initialized
                   THEN [Initialized EXCEPT
                           !.points_done = SubSeq(SnakeOrder, 1, n),
                           !.completed_points = n,
                           !.recovery_enabled = recovery]
                   ELSE ConnectedScanner
    /\ \E link \in {"up", "down"}, miss \in {0, NearMiss},
          fault \in {"raises", "silent"} :
          env = [frames |-> "scan", late |-> FALSE, gaps |-> FALSE,
                 link |-> link, changes |-> MaxLinkChanges,
                 called |-> FALSE, miss |-> miss, fault |-> fault]
    /\ g = InitHistory

NextScan ==
    \/ EngineNext
    \/ WaitNext
    \/ MoveNext
    \/ PollNext
    \/ ShutdownNext
    \/ RecoveryNext
    \/ MoveToPositionNext
    \/ InitializeNext
    \/ ScanNext
    \/ TopInitializeScan
    \/ TopInitializeReturn
    \/ \E resume \in BOOLEAN, cb \in BOOLEAN : TopPerformScan(resume, cb)
    \/ LinkChange

SpecScan == InitScan /\ [][NextScan]_vars

----------------------------------------------------------------------------
(* Scans of grids of every shape, with a device that answers              *)

\* The most points a grid has on an axis, and the span of the wide range.
MaxGridSteps == 3
WideSpan == 100

GridRanges == { <<0, WideSpan>>, <<0, GridSpan>> }

\* A scan of the grid, from its first point.
TopScanGrid(cb) == TopPerformScan(FALSE, cb)

\* initialize_scan(x_range, y_range, x_steps, y_steps) has returned True;
\* the controller is connected, the link is up and stays up, and the device
\* comes to rest where it is sent.
InitGrid ==
    /\ ctl = [InitCtl EXCEPT !.connected = TRUE, !.transfer = TRUE,
                             !.motors_enabled = FALSE,
                             !.current_mode = MODE_SERIAL]
    /\ rx = ConnectedRx
    /\ clk = IdleClocks
    /\ sc = IdleCall
    /\ cn = IdleConnect
    /\ mv = IdleMove
    /\ wt = IdleWait
    /\ IdleScanner
    /\ \E x_range \in GridRanges, y_range \in GridRanges,
          x_steps \in 1..MaxGridSteps, y_steps \in 1..MaxGridSteps :
          scn = ProgressReset(ParamsSaved(ConnectedScanner, x_range, y_range,
                                          x_steps, y_steps))
    /\ env = [frames |-> "scan", late |-> FALSE, gaps |-> FALSE,
              link |-> "up", changes |-> 0, called |-> FALSE, miss |-> 0,
              fault |-> "silent"]
    /\ g = InitHistory

\* The steps of a scan over a link that is up: no wait times out, nothing
\* raises, every move arrives, and the motors are enabled before the first.
NextGrid ==
    \/ SC_Entry
    \/ SC_Send
    \/ \E d \in Delays, f \in DevFrames(sc.cmd) : SC_MoveRecv(d, f)
    \/ \E d \in Delays, f \in DevFrames(sc.cmd) : SC_Recv(d, f)
    \/ WrapperRet
    \/ WT_Loop
    \/ WT_Polled
    \/ MV_Entry
    \/ MV_Pos0
    \/ MV_Plan
    \/ MV_SegSend
    \/ MV_SegSent
    \/ MV_SegWaited
    \/ MV_SegPos
    \/ MV_OneSend
    \/ MV_OneSent
    \/ MV_OneWaited
    \/ ShutdownNext
    \/ MP_Try
    \/ MP_Moved
    \/ ScanNext
    \/ \E cb \in BOOLEAN : TopScanGrid(cb)

SpecGrid == InitGrid /\ [][NextGrid]_vars

----------------------------------------------------------------------------
(* The life of a scanner: configure, connect, disconnect, safe_shutdown    *)

\* The keys of the config that configure() is called with: the two safety
\* flags (a key the config does not hold is "auto_disable").
ConfigKeys == {"auto_disable_on_exit", "auto_return_to_joystick"}

\* simple_scanner.py lines 183-207: a key of the config is stored, and the
\* safety flags are copied to the controller; any other key is logged.
TopConfigure(key, value) ==
    /\ Idle
    /\ cn = IdleConnect
    /\ sd = IdleShutdown
    /\ scn' = IF key \in ConfigKeys
              THEN [scn EXCEPT ![key] = value,
                               !.configured = [key |-> key, raised |-> FALSE]]
              ELSE [scn EXCEPT !.configured = [key |-> key, raised |-> FALSE]]
    /\ ctl' = CASE key = "auto_disable_on_exit" ->
                     [ctl EXCEPT !.auto_disable_on_disconnect = value]
                [] key = "auto_return_to_joystick" ->
                     [ctl EXCEPT !.auto_switch_to_joystick = value]
                [] OTHER -> ctl
    /\ UNCHANGED <<rx, clk, sc, cn, mv, wt, env, ini, ps, mp, rc, wp, sd, g>>

\* connect() of the controller (motor_controller.py line 131) or of the
\* scanner (simple_scanner.py lines 218-221).
LifeConnect(by) ==
    /\ Idle
    /\ cn = IdleConnect
    /\ sd = IdleShutdown
    /\ cn' = [IdleConnect EXCEPT !.pc = "entry", !.by = by, !.op = "connect",
                                 !.before = ctl,
                                 !.status0 = scn.connection_status]
    /\ UNCHANGED <<ctl, rx, clk, sc, mv, wt, env, scanner, g>>

\* simple_scanner.py lines 221-227: the scanner records a connection that
\* succeeded, and nothing otherwise.
LifeConnected ==
    /\ cn.pc = "done"
    /\ cn.by \in {"controller", "scanner"}
    /\ scn' = IF cn.by = "scanner" /\ cn.ok
              THEN [scn EXCEPT !.connection_status = TRUE] ELSE scn
    /\ cn' = [cn EXCEPT !.pc = "after"]
    /\ UNCHANGED <<ctl, rx, clk, sc, mv, wt, env, ini, ps, mp, rc, wp, sd, g>>

\* disconnect() of the controller (motor_controller.py lines 156-166) or of
\* the scanner (simple_scanner.py lines 233-241).
LifeDisconnect(by) ==
    /\ Idle
    /\ cn = IdleConnect
    /\ sd = IdleShutdown
    /\ ctl' = Disconnected(ctl)
    /\ scn' = IF by = "scanner"
              THEN [scn EXCEPT !.connection_status = FALSE] ELSE scn
    /\ cn' = [IdleConnect EXCEPT !.pc = "after", !.by = by,
                                 !.op = "disconnect", !.before = ctl,
                                 !.status0 = scn.connection_status]
    /\ UNCHANGED <<rx, clk, sc, mv, wt, env, ini, ps, mp, rc, wp, sd, g>>

LifeReturn ==
    /\ cn.pc = "after"
    /\ cn' = IdleConnect
    /\ g' = Forgotten
    /\ UNCHANGED <<ctl, rx, clk, sc, mv, wt, env, scanner>>

\* safe_shutdown() of the controller or of the scanner, as atexit calls it.
TopShutdown(hook) ==
    /\ Idle
    /\ cn = IdleConnect
    /\ sd = IdleShutdown
    /\ sd' = HookCall(hook)
    /\ UNCHANGED <<ctl, rx, clk, sc, cn, mv, wt, env, scn, ini, ps, mp, rc, wp, g>>

TopShutdownReturn ==
    /\ sd.pc = "hk_done"
    /\ sd' = IdleShutdown
    /\ g' = Forgotten
    /\ UNCHANGED <<ctl, rx, clk, sc, cn, mv, wt, env, scn, ini, ps, mp, rc, wp>>

\* A controller and its scanner as their constructors leave them; the
\* device answers a command or not, attempt by attempt.
InitLife ==
    /\ ctl = InitCtl
    /\ rx = BlankRx
    /\ clk = IdleClocks
    /\ sc = IdleCall
    /\ cn = IdleConnect
    /\ mv = IdleMove
    /\ wt = IdleWait
    /\ scn = NewScanner
    /\ IdleScanner
    /\ env = [frames |-> "scan", late |-> FALSE, gaps |-> FALSE,
              link |-> "any", changes |-> 0, called |-> FALSE, miss |-> 0,
              fault |-> "any"]
    /\ g = InitHistory

NextLife ==
    \/ SC_Entry
    \/ SC_Send
    \/ SC_Raises
    \/ SC_Exhausted
    \/ \E d \in Delays, f \in DevFrames(sc.cmd) : SC_Recv(d, f)
    \/ SC_Timeout
    \/ WrapperRet
    \/ ConnectNext
    \/ HK_Call
    \/ HK_Ret
    \/ HK_Close
    \/ \E key \in ConfigKeys \cup {"auto_disable"}, value \in BOOLEAN :
           TopConfigure(key, value)
    \/ \E by \in {"controller", "scanner"} : LifeConnect(by)
    \/ LifeConnected
    \/ \E by \in {"controller", "scanner"} : LifeDisconnect(by)
    \/ LifeReturn
    \/ \E hook \in {"controller", "scanner"} : TopShutdown(hook)
    \/ TopShutdownReturn

SpecLife == InitLife /\ [][NextLife]_vars

----------------------------------------------------------------------------
(* Every operation, with a device that streams frames or stays silent       *)

OperationKinds == {"wrapper", "_send_command", "connect", "safe_shutdown"}

\* One call of a method of the controller or of the scanner: a wrapper of
\* _send_command, _send_command itself, connect or safe_shutdown (move_to,
\* initialize_scan and perform_scan are TopMoveTo, TopInitializeScan and
\* TopPerformScan).
TopOperation(kind, c, by) ==
    /\ Idle
    /\ cn = IdleConnect
    /\ sd = IdleShutdown
    /\ ~env.called
    /\ env' = [env EXCEPT !.called = TRUE]
    /\ sc' = CASE kind = "wrapper" -> WrapperCall("top", c[1], c[2], c[3])
               [] kind = "_send_command" ->
                    Call("top", "_send_command", CMD_STATUS, 0, 0, 0,
                         DefaultTimeout, RetryCount, TRUE)
               [] OTHER -> sc
    /\ cn' = IF kind = "connect"
              THEN [IdleConnect EXCEPT !.pc = "entry", !.by = by,
                                       !.op = "connect", !.before = ctl,
                                       !.status0 = scn.connection_status]
              ELSE cn
    /\ sd' = IF kind = "safe_shutdown" THEN HookCall(by) ELSE sd
    /\ UNCHANGED <<ctl, rx, clk, mv, wt, scn, ini, ps, mp, rc, wp, g>>

\* What the device does: it answers every command; it never responds (the
\* port takes the frames, or raises); or it sends a status frame every
\* StreamDelay, for ever, and never an acknowledgment.  A device that
\* answers comes to rest where it is sent or NearMiss steps beyond, and may
\* stop answering, and back, in the middle of an operation; the device that
\* streams comes to rest NearMiss steps beyond.
Devices ==
    { [frames |-> "scan", late |-> FALSE, gaps |-> FALSE, link |-> link,
       changes |-> MaxLinkChanges, called |-> FALSE, miss |-> miss,
       fault |-> fault] : link \in {"up", "down"}, miss \in {0, NearMiss},
                          fault \in {"raises", "silent"} }
    \cup { [frames |-> "stream", late |-> FALSE, gaps |-> FALSE, link |-> "any",
            changes |-> 0, called |-> FALSE, miss |-> NearMiss,
            fault |-> "silent"] }

\* The controller is connected or not; the scanner of a connected controller
\* was initialized or not.
InitHostile ==
    /\ \E connected \in BOOLEAN, initialized \in BOOLEAN :
          /\ initialized => connected
          /\ ctl = IF connected
                   THEN [InitCtl EXCEPT !.connected = TRUE, !.transfer = TRUE,
                                        !.current_mode = MODE_SERIAL]
                   ELSE InitCtl
          /\ rx = IF connected THEN ConnectedRx ELSE BlankRx
          /\ scn = IF initialized THEN Initialized
                   ELSE IF connected THEN ConnectedScanner ELSE NewScanner
    /\ clk = IdleClocks
    /\ sc = IdleCall
    /\ cn = IdleConnect
    /\ mv = IdleMove
    /\ wt = IdleWait
    /\ IdleScanner
    /\ env \in Devices
    /\ g = InitHistory

NextHostile ==
    \/ EngineNext
    \/ ConnectNext
    \/ WaitNext
    \/ MoveNext
    \/ PollNext
    \/ ShutdownNext
    \/ RecoveryNext
    \/ MoveToPositionNext
    \/ InitializeNext
    \/ ScanNext
    \/ HK_Call
    \/ HK_Ret
    \/ HK_Close
    \/ \E kind \in OperationKinds, c \in TopCalls,
          by \in {"controller", "scanner"} : TopOperation(kind, c, by)
    \/ TopReturn
    \/ LifeConnected
    \/ LifeReturn
    \/ TopShutdownReturn
    \/ \E t \in MoveTargets : TopMoveTo(t)
    \/ TopMoveReturn
    \/ TopInitializeScan
    \/ TopInitializeReturn
    \/ \E resume \in BOOLEAN, cb \in BOOLEAN : TopPerformScan(resume, cb)
    \/ LinkChange

\* The program runs on one thread that is never suspended for ever: while a
\* step of it is possible, a step is taken.
SpecHostile == InitHostile /\ [][NextHostile]_vars /\ WF_vars(NextHostile)

----------------------------------------------------------------------------
(* The command/response engine: claims                                     *)

\* C1: whenever a frame is written to the transport (a first attempt, a
\* retransmission or the ping of connect), the time since the previous write
\* is at least the minimum spacing of the frame written: 0.5 s for
\* MoveRelative/MoveAbsolute, command_spacing otherwise.
C1_WritesAreSpaced ==
    g.txcmd # 0 => g.gap >= MinSpacing(g.txcmd)

\* C2: once a non-movement command has received, within its timeout, an Ok
\* frame carrying its id or a Status/Position frame echoing its id,
\* _send_command has returned a direct success; for the status frame, the
\* response returned is that frame.
C2_CorrelatedFrameEndsWait ==
    g.corr # "none" =>
        /\ sc.pc \in {"ret", "done"}
        /\ ~sc.ret.none
        /\ ~sc.ret.derived
        /\ g.corr = "status" =>
               IsStatusKind(sc.ret.responseID) /\ sc.ret.st = g.corrSt

\* C3: a Status or Position frame read while a command, movement or not, is
\* waiting for its response sets the cached position, speed, running flags
\* and mode to the values of the frame.
C3_StatusFrameUpdatesCache ==
    (g.rxIn \in {"move", "wait"} /\ IsStatusKind(g.lastRx.kind)) =>
        /\ ctl.current_position = g.lastRx.st.pos
        /\ ctl.current_speed = g.lastRx.st.speed
        /\ ctl.is_running = <<g.lastRx.st.run[1] > 0, g.lastRx.st.run[2] > 0>>
        /\ ctl.current_mode = g.lastRx.st.mode

\* C4: motors_enabled is the effect of the last Enable or Disable command
\* that an Ok frame echoing its id acknowledged; a failed call and a derived
\* success leave it unchanged.
C4_EnabledIsLastAcknowledged ==
    ctl.motors_enabled = g.ackEnabled

----------------------------------------------------------------------------
(* The motion planner: claims                                              *)

\* C5: whenever move_to has written a MoveAbsolute frame, motors_enabled
\* was true when the frame was written; after an Enable that was not
\* acknowledged no MoveAbsolute frame is written.
C5_MovesOnlyWhenEnabled ==
    g.moves > 0 => g.mvEnabled

\* The linear interpolation of waypoint k of n on the path from start to
\* target, as an integer.
Interpolated(start, target, k, n) == Trunc(start * n + (target - start) * k, n)

\* C6: in a segmented move_to, the waypoint of every segment but the last
\* is, on each axis that is moved, the linear interpolation between the
\* position at the start of the move and the target.
C6_WaypointsInterpolateThePath ==
    (mv.pc \in {"seg_sent", "seg_wait", "seg_pos"} /\ mv.i < mv.n - 1) =>
        /\ mv.hx => mv.sx = Interpolated(mv.start[1], mv.x, mv.i + 1, mv.n)
        /\ mv.hy => mv.sy = Interpolated(mv.start[2], mv.y, mv.i + 1, mv.n)

\* move_to has returned: to its caller, or to a move_by beyond the
\* threshold, which returns what move_to returned (a move_by within the
\* threshold calls no move_to).
MoveToReturned ==
    mv.pc = "done" /\ (mv.via = "move_by" => IsLargeDelta(mv.rel))

\* C7: when move_to has returned success, the last MoveAbsolute frame it
\* wrote selects each axis that was given and carries the requested target
\* on it.
C7_LastFrameCarriesTheTarget ==
    (MoveToReturned /\ mv.ok) =>
        /\ g.moves > 0
        /\ g.lastMove.mask = MotorSelect(mv.hx, mv.hy)
        /\ mv.hx => g.lastMove.p1 = mv.x
        /\ mv.hy => g.lastMove.p2 = mv.y

\* A segmented move_to on both axes has returned success after three
\* frames.
C7_Witness ==
    /\ mv.pc = "done"
    /\ mv.ok
    /\ mv.hx
    /\ mv.hy
    /\ mv.n = 3
    /\ g.moves >= 3

\* The tolerance in force, doubled: the base tolerance, or the widened one
\* from the second stable reading on.
CurrentTolerance2(w) == w.tol * (2 + (IF w.count >= 2 THEN w.count ELSE 0))

\* C8: when _wait_for_segment_completion has returned success, the sample
\* it has just read is within the tolerance in force of the target on both
\* axes.
C8_ArrivalWithinTolerance ==
    (wt.pc = "done" /\ wt.ok) =>
        /\ wt.sampled
        /\ 2 * Abs(wt.sample[1] - wt.tx) <= CurrentTolerance2(wt)
        /\ 2 * Abs(wt.sample[2] - wt.ty) <= CurrentTolerance2(wt)

\* C9: in a move_to on X alone, the MoveAbsolute frames select X alone, and
\* a sample that is within the tolerance of the target on X is an arrival,
\* wherever the cache has Y.
C9_OmittedAxisIsUnconstrained ==
    (mv.pc # "idle" /\ mv.hx /\ ~mv.hy) =>
        /\ g.moves > 0 => g.lastMove.mask = MOTOR_X
        /\ (wt.sampled /\ Abs(wt.sample[1] - wt.tx) <= wt.tol) =>
               (wt.pc = "done" /\ wt.ok)

\* The point, as <<row, col>>, that a snake over an n by n grid passes as
\* its i-th (from 0): rows in order, odd rows from the last column back.
SnakePoint(i, n) ==
    << i \div n, IF (i \div n) % 2 = 0 THEN i % n ELSE n - 1 - (i % n) >>

\* The points of the grid that are not in done, in snake order.
SnakeWithout(done) ==
    SelectSeq([i \in 1..(GridSteps * GridSteps) |-> SnakePoint(i - 1, GridSteps)],
              LAMBDA q : q \notin Range(done))

IsPrefix(a, b) == Len(a) <= Len(b) /\ a = SubSeq(b, 1, Len(a))

\* C10: perform_scan(resume=True) moves to, and calls the data callback for,
\* exactly the grid points whose <<row, col>> is not in points_done, in
\* snake order and each once: at any moment the points moved to are the
\* first of those points, the callback was called for them (the one being
\* moved to excepted), every move_to under way goes to the point moved to
\* last, and a scan that returns True has gone through all of them.
C10_ResumeVisitsTheRemainingPoints ==
    (ps.resume /\ ps.pc \notin {"idle", "entry"}) =>
        LET expected == SnakeWithout(ps.done0)
            n == Len(ps.visited)
        IN  /\ IsPrefix(ps.visited, expected)
            /\ ps.cb => /\ IsPrefix(ps.called, ps.visited)
                        /\ Len(ps.called) >= n - 1
            /\ ~ps.cb => ps.called = <<>>
            /\ mv.pc # "idle" =>
                   /\ n > 0
                   /\ mv.hx /\ mv.hy
                   /\ mv.x = GridPos(scn.x_range, ps.visited[n][2], GridSteps)
                   /\ mv.y = GridPos(scn.y_range, ps.visited[n][1], GridSteps)
            /\ (ps.pc = "done" /\ ps.ok) =>
                   /\ ps.visited = expected
                   /\ ps.cb => ps.called = expected

C10_Witness ==
    /\ ps.pc = "done" /\ ps.ok /\ ps.resume /\ ps.cb
    /\ ps.done0 = << <<0, 0>>, <<0, 1>> >>
    /\ ps.visited = << <<1, 1>>, <<1, 0>> >>
    /\ ps.called = ps.visited

\* The <<row, col>> of the first n points of a plan.
PointsOf(plan, n) == [i \in 1..n |-> <<plan[i].row, plan[i].col>>]

\* C11: when move_to_position fails for a point of the plan, perform_scan
\* returns failure at once: the failing point is the last one a move was
\* made for, the callback was called for the points before it only,
\* points_done holds the points it held before the scan and the points
\* completed before the failing one, and no command is under way.
C11_FailedPointEndsTheScan ==
    (ps.pc = "done" /\ ps.how = "move") =>
        /\ ~ps.ok
        /\ ps.k \in 1..Len(ps.plan)
        /\ ps.visited = PointsOf(ps.plan, ps.k)
        /\ ps.called = IF ps.cb THEN PointsOf(ps.plan, ps.k - 1) ELSE <<>>
        /\ scn.points_done = ps.done0 \o PointsOf(ps.plan, ps.k - 1)
        /\ sc.pc = "idle" /\ mv.pc = "idle" /\ mp.pc = "idle"
        /\ sd.pc = "idle"

C11_Witness ==
    /\ ps.pc = "done" /\ ps.how = "move" /\ ps.cb
    /\ ps.k = 2 /\ Len(ps.plan) = 4
    /\ Len(scn.points_done) = 1

\* The safe shutdown sequence: Stop, Disable motors, SetMode(Joystick).
SafeShutdown ==
    << <<"stop", 0>>, <<"disable_motors", 0>>, <<"set_mode", MODE_JOYSTICK>> >>

\* C12: when perform_scan stops because a point could not be reached, it
\* has run the safe shutdown sequence before it returns failure.
C12_FailedPointShutsDown ==
    (ps.pc = "done" /\ ps.how = "move") => ps.shut = SafeShutdown

\* C13: when perform_scan has gone through all the points of the plan, or
\* has caught an exception, it has called Stop, then Disable motors, then
\* SetMode(Joystick), in that order, whether or not the earlier ones
\* succeeded; while the sequence runs the calls made are its first ones.
C13_ShutdownInOrder ==
    /\ (ps.pc = "done" /\ ps.how \in {"complete", "raised"}) =>
           ps.shut = SafeShutdown
    /\ ps.pc = "shutdown" => IsPrefix(sd.issued, SafeShutdown)

C13_Witness ==
    /\ ps.pc = "done" /\ ps.how = "raised"
    /\ ps.shut = SafeShutdown
    /\ env.link = "down"
    /\ ctl.motors_enabled

\* C14: a step of initialize_scan that fails is the last one it calls, and
\* initialize_scan then returns failure; and perform_scan goes beyond its
\* check, and sends a command, only on a scanner for which an
\* initialize_scan has succeeded.
C14_FailedInitializeLeavesIdle ==
    /\ (ini.pc = "done" /\ ~ini.ok) =>
           /\ ini.sent = [i \in 1..ini.step |-> InitializeScript[i][1]]
           /\ ~scn.inited
    /\ (ps.pc \notin {"idle", "entry"} /\ ps.how # "refused") => scn.inited

\* Where the device rests is within tol of <<x, y>>.
DeviceWithin(x, y, tol) ==
    /\ Abs(g.at[1] + env.miss - x) <= tol
    /\ Abs(g.at[2] - y) <= tol

\* C15: when the soft reset of _attempt_recovery has not succeeded, Home
\* has succeeded, the move that follows was accepted and the device, its
\* link up, rests within the position tolerance of the target, the
\* recovery returns success.
C15_RehomeRecovers ==
    (/\ rc.pc = "done" /\ rc.phase = 2 /\ rc.moved
     /\ env.link = "up"
     /\ DeviceWithin(rc.x, rc.y, PositionTolerance)) => rc.ok

\* C16: in _attempt_recovery the first move_to is called after set_speed
\* and set_acceleration were called with half the configured values; and
\* a recovery that returns success has called, after its last move_to and
\* last, set_speed and set_acceleration with the configured values.
C16_SlowThenRestored ==
    /\ Len(rc.sent) >= 1 => rc.sent[1] = <<"set_speed", MotorSpeed \div 2>>
    /\ Len(rc.sent) >= 2 =>
           rc.sent[2] = <<"set_acceleration", MotorAccel \div 2>>
    /\ Len(rc.sent) >= 3 => rc.sent[3] = <<"move_to", 0>>
    /\ (rc.pc = "done" /\ rc.ok) =>
           /\ Len(rc.sent) >= 5
           /\ rc.sent[Len(rc.sent) - 2] = <<"move_to", 0>>
           /\ rc.sent[Len(rc.sent) - 1] = <<"set_speed", MotorSpeed>>
           /\ rc.sent[Len(rc.sent)] = <<"set_acceleration", MotorAccel>>

C16_Witness ==
    /\ rc.pc = "done" /\ rc.ok
    /\ ctl.current_position = <<rc.x, rc.y>>
    /\ rc.x = GridSpan

\* C17: in one call of move_to_position the recovery is started at most
\* once, only when it is enabled and only after RetryAttempts calls of
\* move_to have all failed; a move_to that succeeds returns success with no
\* recovery started.
C17_RecoveryOnceAfterRetries ==
    /\ mp.recoveries <= 1
    /\ mp.failed <= RetryAttempts
    /\ mp.recoveries = 1 => (scn.recovery_enabled /\ mp.failed = RetryAttempts)
    /\ mp.pc = "recovering" => mp.recoveries = 1
    /\ (mp.pc = "done" /\ mp.ok /\ mp.failed < RetryAttempts) =>
           mp.recoveries = 0
    /\ (mp.pc = "done" /\ mp.ok /\ mp.failed = RetryAttempts) =>
           mp.recoveries = 1

C17_Witness ==
    /\ mp.pc = "done" /\ mp.ok
    /\ mp.recoveries = 1 /\ mp.failed = RetryAttempts

\* C18: when the device has sent no Status or Position frame since move_to
\* was called, and the target is farther than the tolerance from the
\* cached position, move_to does not report the target reached (so
\* move_to_position, which returns True when move_to does, fails).
C18_MuteDeviceIsNeverReached ==
    (/\ mv.pc = "done" /\ ~g.heard
     /\ \/ mv.hx /\ Abs(mv.x - ctl.current_position[1]) > SegmentTolerance
        \/ mv.hy /\ Abs(mv.y - ctl.current_position[2]) > SegmentTolerance)
    => ~mv.ok

\* C19: for MoveRelative and MoveAbsolute the first frame read, of any
\* kind, ends the wait with the command reported accepted, it was read
\* within min(2 s, timeout) of the write, and the command is reported
\* accepted only in an attempt that a frame ended.
C19_FirstFrameAcceptsAMove ==
    IsMovement(sc.cmd) =>
        /\ sc.pc = "wait" => g.rxIn # "move"
        /\ (sc.pc \in {"ret", "done"} /\ ~sc.ret.none) =>
               /\ sc.ended = "frame" /\ g.rxIn = "move"
               /\ sc.at < Min(ShortTimeoutCap, sc.timeout)
               /\ sc.ret = OkResp(RESP_OK, sc.cmd, FALSE, TRUE)
        /\ (sc.pc \in {"ret", "done"} /\ sc.ret.none) =>
               /\ sc.ended # "frame"
               /\ g.rxIn # "move"

C19_Witness ==
    /\ IsMovement(sc.cmd) /\ sc.pc = "ret" /\ ~sc.ret.none
    /\ g.lastRx.kind = RESP_ERROR
    /\ sc.attempt = 1 /\ sc.at = LateDelay

\* C20: a non-movement command returns a derived success exactly when a
\* timeout ended an attempt in which a Status or Position frame was read
\* and force_retry was not asked for; with force_retry it never does, the
\* timeout starts the next attempt, and the command fails when retry_count
\* attempts are used up.
C20_DerivedSuccessUnlessStrict ==
    ~IsMovement(sc.cmd) =>
        /\ (sc.pc \in {"ret", "done"} /\ sc.ret.derived) =>
               /\ sc.ended = "timeout" /\ sc.got /\ ~sc.force
               /\ sc.ret = OkResp(RESP_OK, sc.cmd, TRUE, FALSE)
        /\ (sc.ended = "timeout" /\ sc.got /\ ~sc.force) =>
               (sc.pc \in {"ret", "done"} /\ sc.ret.derived)
        /\ (sc.ended = "timeout" /\ sc.got /\ sc.force) =>
               /\ sc.attempt >= 1
               /\ sc.pc \in {"send", "ret", "done"}
               /\ sc.pc \in {"ret", "done"} =>
                      (sc.ret.none /\ sc.attempt = sc.retry)

C20_Witness ==
    /\ sc.force /\ sc.pc = "ret" /\ sc.ret.none
    /\ sc.ended = "timeout" /\ sc.got /\ sc.attempt = RetryCount

\* C21: a call of _send_command on a connected controller writes its frame at
\* most retry_count times, and it returns None exactly when retry_count
\* attempts were used up, each ended by a timeout or by an exception.
C21_AtMostRetryCountWrites ==
    /\ sc.pc # "idle" /\ ctl.connected /\ ctl.transfer => sc.sent <= sc.retry
    /\ sc.pc \in {"ret", "done"} /\ ctl.connected /\ ctl.transfer =>
          /\ sc.ret.none <=> sc.attempt = sc.retry
          /\ sc.ret.none => sc.ended \in {"timeout", "raised"}
          /\ ~sc.ret.none => sc.attempt < sc.retry /\ sc.ended \in {"frame", "timeout"}

\* A move that failed after writing its frame three times.
C21_Witness ==
    /\ sc.pc = "ret" /\ ctl.connected /\ ctl.transfer
    /\ IsMovement(sc.cmd) /\ sc.ret.none
    /\ sc.sent = RetryCount /\ sc.attempt = RetryCount /\ sc.ended = "timeout"

\* round(sqrt(q) / size), halves going to the even neighbour as round() does.
Rounded(q, size) ==
    CHOOSE m \in 0..q :
        LET lo == (2 * m - 1) * (2 * m - 1) * size * size
            hi == (2 * m + 1) * (2 * m + 1) * size * size
        IN  \/ m = 0 /\ 4 * q < hi
            \/ m = 0 /\ 4 * q = hi
            \/ m > 0 /\ lo < 4 * q /\ 4 * q < hi
            \/ m > 0 /\ 4 * q = lo /\ m % 2 = 0
            \/ m > 0 /\ 4 * q = hi /\ m % 2 = 0

\* C22: move_to cuts the move in segments exactly when an axis has more than
\* 40 steps to go from the position it read, and then in
\* max(2, round(distance / segment_length)) segments, the length being 20
\* when both axes move and 30 when one does.
C22_SegmentCountIsRounded ==
    LET x_dist == Dist(mv.hx, mv.x, mv.start[1])
        y_dist == Dist(mv.hy, mv.y, mv.start[2])
        large == x_dist > LargeMoveThreshold \/ y_dist > LargeMoveThreshold
        size == IF x_dist > 0 /\ y_dist > 0
                THEN DiagonalSegment ELSE StraightSegment
    IN  /\ mv.pc \in {"seg", "seg_sent", "seg_wait", "seg_pos"} => large
        /\ mv.pc \in {"one", "one_sent", "one_wait"} => ~large
        /\ mv.pc = "seg" /\ mv.i = 0 =>
              mv.n = Max(2, Rounded(x_dist * x_dist + y_dist * y_dist, size))

\* The <<row, col>> a snake over a grid of x_steps columns passes as its
\* i-th point (from 1): rows in order, even rows from column 0 on, odd rows
\* from the last column back.
SnakeCell(i, x_steps) ==
    LET row == (i - 1) \div x_steps
        col == (i - 1) % x_steps
    IN  << row, IF row % 2 = 0 THEN col ELSE x_steps - 1 - col >>

\* C23: the plan of a scan that does not resume holds every cell of the grid
\* once, in snake order (rows increasing, columns increasing on even rows and
\* decreasing on odd rows), so that two points in a row of the plan differ
\* by one in exactly one index; a scan that returns True has moved to every
\* point of the plan in that order and completed_points counts them all;
\* over (0, 100) x (0, 100) with 2 x 2 points the positions moved to are
\* (0, 0), (100, 0), (100, 100), (0, 100) and completed_points ends at 4.
C23_PlanIsASnake ==
    LET n == scn.x_steps * scn.y_steps
        cells == [i \in 1..n |-> SnakeCell(i, scn.x_steps)]
        places == [i \in 1..Len(ps.plan) |-> <<ps.plan[i].x, ps.plan[i].y>>]
    IN  /\ ps.pc \notin {"idle", "entry", "mode", "enable"} /\ ~ps.resume =>
              /\ PointsOf(ps.plan, Len(ps.plan)) = cells
              /\ \A i \in 1..(n - 1) :
                     Abs(ps.plan[i + 1].row - ps.plan[i].row)
                         + Abs(ps.plan[i + 1].col - ps.plan[i].col) = 1
              /\ IsPrefix(ps.visited, cells)
        /\ ps.pc = "done" /\ ps.ok /\ ~ps.resume =>
              /\ ps.visited = cells
              /\ scn.completed_points = n
              /\ scn.points_done = cells
              /\ (scn.x_steps = 2 /\ scn.y_steps = 2
                     /\ scn.x_range = <<0, WideSpan>>
                     /\ scn.y_range = <<0, WideSpan>>) =>
                    /\ places = << <<0, 0>>, <<WideSpan, 0>>,
                                   <<WideSpan, WideSpan>>, <<0, WideSpan>> >>
                    /\ scn.completed_points = 4
                    /\ g.at = <<0, WideSpan>>

\* The scan of the 2 x 2 grid over (0, 100) x (0, 100) has returned True.
C23_Witness ==
    /\ ps.pc = "done" /\ ps.ok /\ ~ps.resume
    /\ scn.x_steps = 2 /\ scn.y_steps = 2
    /\ scn.x_range = <<0, WideSpan>> /\ scn.y_range = <<0, WideSpan>>
    /\ ps.visited = << <<0, 0>>, <<0, 1>>, <<1, 1>>, <<1, 0>> >>
    /\ scn.completed_points = 4

\* The points recorded in points_done since the scan began.
Recorded == SubSeq(scn.points_done, Len(ps.done0) + 1, Len(scn.points_done))

\* C24: during a scan the data callback is called for the points of the
\* plan in order, each at most once, with the row and column of the point,
\* and only for a point move_to_position has returned True for; a point is
\* recorded in points_done, and counted, only once the callback called for
\* it has returned (a callback that raised leaves its point unrecorded); a
\* scan that returns True has called it once for every point of the plan.
C24_CallbackThenRecord ==
    ps.pc \in {"loop", "moving", "pos", "shutdown", "done"}
        /\ ps.how # "refused" =>
        LET cells == PointsOf(ps.plan, Len(ps.plan))
        IN  /\ IsPrefix(ps.visited, cells)
            /\ IsPrefix(ps.arrived, ps.visited)
            /\ Len(ps.visited) - Len(ps.arrived) <= 1
            /\ scn.points_done = ps.done0 \o Recorded
            /\ IsPrefix(Recorded, ps.arrived)
            /\ ps.processed = Len(Recorded)
            /\ ~ps.resume => scn.completed_points = Len(Recorded)
            /\ IF ps.cb
               THEN /\ IsPrefix(ps.called, ps.arrived)
                    /\ IsPrefix(Recorded, ps.called)
                    /\ Len(ps.called) - Len(Recorded)
                          = IF ps.how = "raised" THEN 1 ELSE 0
                    /\ ps.pc \in {"loop", "moving"} => ps.called = ps.arrived
               ELSE ps.called = <<>>
            /\ (ps.pc = "done" /\ ps.ok) =>
                   /\ Recorded = cells
                   /\ ps.cb => ps.called = cells

\* The callback raised at the second point of a scan.
C24_Witness ==
    /\ ps.pc = "done" /\ ps.how = "raised" /\ ps.cb /\ ~ps.resume
    /\ Len(ps.called) = 2 /\ Len(scn.points_done) = 1
    /\ ps.arrived = ps.called

\* The commands the running hook has written a frame for.
HookWrote ==
    sd.wrote \cup (IF sc.by = "hk" /\ sc.sent > 0 THEN {sc.cmd} ELSE {})

\* C25: a termination hook writes a Disable frame only if auto-disable-on-exit
\* is configured and a SetMode(Joystick) frame only if
\* auto-return-to-joystick is configured, the controller's hook going by the
\* controller's flags and the scanner's hook by the scanner's config.
C25_HookAsksItsFlags ==
    sd.hook # "none" =>
        LET disable == IF sd.hook = "controller"
                       THEN ctl.auto_disable_on_disconnect
                       ELSE scn.auto_disable_on_exit
            joystick == IF sd.hook = "controller"
                        THEN ctl.auto_switch_to_joystick
                        ELSE scn.auto_return_to_joystick
        IN  /\ CMD_DISABLE \in HookWrote => disable
            /\ CMD_MODE \in HookWrote => joystick

\* C25 for the controller's hook alone.
C25_ControllerHookAsksItsFlags ==
    sd.hook = "controller" => C25_HookAsksItsFlags

\* The wrappers of the running hook's script, with their argument.
HookSteps ==
    [i \in 1..Len(HookScript(sd.hook)) |->
        <<HookScript(sd.hook)[i][1], HookScript(sd.hook)[i][2]>>]

\* C26: a termination hook that began on a connected instance calls every
\* wrapper of its script, whatever the earlier ones returned, then flushes
\* and disconnects: when it ends, all its steps were called, the controller
\* is not connected and has no transport, and after the scanner's hook
\* connection_status is False.
C26_HookRunsToTheEnd ==
    /\ sd.pc \in {"hk_call", "hk_wait", "hk_close"} =>
          /\ IsPrefix(sd.issued, HookSteps)
          /\ Len(sd.oks) \in {Len(sd.issued), Len(sd.issued) - 1}
    /\ sd.pc = "hk_close" => sd.issued = HookSteps
    /\ sd.pc = "hk_done" /\ sd.was =>
          /\ sd.issued = HookSteps
          /\ Len(sd.oks) = Len(HookSteps)
          /\ ~ctl.connected /\ ~ctl.transfer
          /\ sd.hook = "scanner" => ~scn.connection_status

\* The scanner's hook has ended; its first and last wrappers failed.
C26_Witness ==
    /\ sd.pc = "hk_done" /\ sd.was /\ sd.hook = "scanner"
    /\ sd.oks = <<FALSE, TRUE, FALSE>>
    /\ ~ctl.connected /\ ~scn.connection_status

\* The controller's hook has ended after a wrapper that failed.
C26_ControllerWitness ==
    /\ sd.pc = "hk_done" /\ sd.was /\ sd.hook = "controller"
    /\ sd.oks = <<FALSE, TRUE, TRUE>>
    /\ ~ctl.connected

\* C27: disconnect() leaves the instance not connected and without a
\* transport, writes no frame, and changes nothing else, so that a second
\* disconnect() changes nothing; on an instance that is not connected it
\* changes nothing at all; connect() that succeeds on an instance that was
\* connected leaves it as it was, connected (for the scanner:
\* connection_status True).
C27_ConnectAndDisconnectAreIdempotent ==
    cn.pc = "after" =>
        /\ cn.op = "disconnect" =>
              /\ ctl = [cn.before EXCEPT !.connected = FALSE,
                                         !.transfer = FALSE]
              /\ Disconnected(ctl) = ctl
              /\ cn.by = "scanner" => ~scn.connection_status
              /\ g.txcmd = 0
              /\ ~cn.before.connected /\ (cn.by = "scanner" => ~cn.status0) =>
                    /\ ctl = cn.before
                    /\ scn.connection_status = cn.status0
        /\ cn.op = "connect" /\ cn.ok =>
              /\ ctl = [cn.before EXCEPT !.connected = TRUE, !.transfer = TRUE]
              /\ cn.by = "scanner" => scn.connection_status
              /\ cn.before.connected /\ (cn.by = "scanner" => cn.status0) =>
                    /\ ctl = cn.before
                    /\ scn.connection_status = cn.status0

\* connect() of a scanner that was connected has succeeded.
C27_Witness ==
    /\ cn.pc = "after" /\ cn.op = "connect" /\ cn.ok /\ cn.by = "scanner"
    /\ cn.before.connected /\ cn.status0
    /\ ctl.connected /\ scn.connection_status

\* disconnect() of a scanner that was not connected has returned.
C27_SecondDisconnect ==
    /\ cn.pc = "after" /\ cn.op = "disconnect" /\ cn.by = "scanner"
    /\ ~cn.before.connected /\ ~cn.status0
    /\ ~ctl.connected /\ ~scn.connection_status

\* C28: configure() called with a key the config does not hold raises a
\* ConfigurationError, and the key is not stored.
C28_UnknownKeyIsRejected ==
    scn.configured.key \notin ConfigKeys \cup {"none"} =>
        /\ scn.configured.raised
        /\ scn.configured.key \notin DOMAIN scn

\* C28, its second half: a key the config does not hold is not stored.
C28_UnknownKeyIsNotStored ==
    scn.configured.key \notin ConfigKeys \cup {"none"} =>
        scn.configured.key \notin DOMAIN scn

\* C30: _attempt_recovery raises nothing: it always returns to
\* move_to_position, which is waiting for it, and an exception raised inside
\* it ends it with the result False; the failures of the commands it sends
\* do not end it before its script says so.
C30_RecoveryNeverRaises ==
    /\ rc.pc # "idle" => mp.pc = "recovering" /\ rc.by = "mp"
    /\ rc.raised => rc.pc = "done" /\ ~rc.ok
    /\ (rc.pc = "done" /\ rc.ok) => rc.step = Len(RecoveryScript) /\ rc.moved
    /\ (rc.pc = "done" /\ ~rc.ok) => rc.phase = 2

\* The re-home has raised (extended_timeout is unbound) and the recovery has
\* returned False.
C30_Witness ==
    /\ rc.pc = "done" /\ rc.raised /\ ~rc.ok /\ rc.phase = 2
    /\ mp.pc = "recovering"


\* No method of the controller or of the scanner is running: each has
\* returned to its caller (a finished scan stays finished).
Quiet ==
    /\ sc.pc = "idle" /\ cn.pc = "idle" /\ mv.pc = "idle" /\ wt.pc = "idle"
    /\ mp.pc = "idle" /\ rc.pc = "idle" /\ wp.pc = "idle"
    /\ sd.pc = "idle" /\ ini.pc = "idle"
    /\ ps.pc \in {"idle", "done"}

\* C29: every operation eventually returns, whatever the device does (it
\* acknowledges, streams status frames, stays silent, or the port raises):
\* again and again no method of the controller or of the scanner is running.
C29_EveryOperationReturns == []<>Quiet

\* A scan has gone through its points and returned with a device that
\* streams status frames for ever.
C29_Witness ==
    /\ Quiet /\ env.called /\ ps.pc = "done"
    /\ env.frames = "stream"
    /\ Len(ps.visited) > 0 /\ ps.how = "complete"

\* A scan that was begun has returned with a device that never responded.
C29_MuteWitness ==
    /\ Quiet /\ env.called /\ ps.pc = "done"
    /\ env.link = "down" /\ env.changes = MaxLinkChanges
    /\ env.fault = "silent"
    /\ Len(ps.visited) > 0

----------------------------------------------------------------------------
(* Frames that are not the answer                                          *)

\* C31: while a non-movement command waits, an Error frame and an Ok frame
\* for another command neither complete nor abort it: after such a frame the
\* attempt goes on waiting and ends only by a timeout, an exception or the
\* acknowledgment of the command, which read later still makes the command a
\* direct success.
C31_NoiseDoesNotEndTheWait ==
    (g.noise /\ sc.pc \in {"wait", "send", "ret"}) =>
       /\ sc.pc = "wait" => sc.ended = "none"
       /\ sc.pc = "send" => sc.ended \in {"timeout", "raised"}
       /\ (sc.pc = "ret" /\ sc.ended = "frame") =>
             /\ g.corr = "ok"
             /\ sc.ret = OkResp(RESP_OK, sc.cmd, FALSE, FALSE)
       /\ (sc.pc = "ret" /\ sc.ended # "frame") =>
             \/ sc.ended = "timeout" /\ sc.got /\ ~sc.force /\ sc.ret.derived
             \/ sc.ret.none /\ sc.attempt >= sc.retry

\* The acknowledgment was read after an Error frame or an Ok frame for
\* another command, and the command is a direct success.
C31_Witness ==
    /\ g.noise /\ g.lastRx.kind = RESP_OK
    /\ sc.pc = "ret" /\ sc.ended = "frame"
    /\ ~IsMovement(sc.cmd)
    /\ sc.ret = OkResp(RESP_OK, sc.cmd, FALSE, FALSE)

\* The cached state of the device (lines 88-92).
CacheOf(c) ==
    <<c.current_position, c.current_speed, c.is_running, c.current_mode>>

\* C32: the cached position, speed, running flags and mode are changed only
\* by a Status or Position frame: a frame of another kind read by the wait
\* of a command leaves the four of them as they were.
C32_OnlyStatusFramesChangeTheCache ==
    [][\A d \in Delays, f \in DevFrames(sc.cmd) :
          (SC_Recv(d, f) /\ ~IsStatusKind(f.kind)) => CacheOf(ctl') = CacheOf(ctl)]_vars

----------------------------------------------------------------------------
(* _wait_for_segment_completion: claims                                    *)

C33_FirstStableReading ==
    /\ wt.pc = "loop" /\ wt.sampled /\ wt.count = 1
    /\ WithinWiderAtOnce(wt, wt.sample, 1)

C34_FailureWitness ==
    /\ wt.pc = "done" /\ wt.how = "stopped" /\ ~wt.ok
    /\ wt.count \in 3..4

\* The timeout ended the wait.
C34_TimeoutWitness ==
    /\ wt.pc = "done" /\ wt.how = "timeout" /\ ~wt.ok /\ wt.sampled

----------------------------------------------------------------------------
(* move_to and move_by: claims                                             *)

\* k times the command of a segment accepted and its arrival wait successful.
Arrivals(k) == [j \in 1..(2 * k) |-> IF j % 2 = 1 THEN "accepted" ELSE "arrived"]

\* C35: in a segmented move_to, while the MoveAbsolute command of a segment
\* is being transmitted every earlier segment was accepted and its arrival
\* wait returned success; a MoveAbsolute command exists only while move_to is
\* at the command of a segment (or of its single frame); and once a segment
\* was refused or its arrival wait failed, move_to has returned failure.
C35_NextSegmentAfterArrival ==
    /\ (sc.pc # "idle" /\ sc.by = "mv_seg") =>
          mv.pc = "seg_sent" /\ mv.i < mv.n /\ mv.log = Arrivals(mv.i)
    /\ (sc.pc # "idle" /\ sc.cmd = CMD_MOVETO) =>
          /\ sc.by \in {"mv_seg", "mv_one"}
          /\ mv.pc = (IF sc.by = "mv_seg" THEN "seg_sent" ELSE "one_sent")
    /\ (\E j \in 1..Len(mv.log) : mv.log[j] \in {"refused", "missed"}) =>
          /\ mv.pc = "done" /\ ~mv.ok
          /\ mv.log[Len(mv.log)] \in {"refused", "missed"}
          /\ SubSeq(mv.log, 1, 2 * mv.i) = Arrivals(mv.i)
          /\ Len(mv.log) \in {2 * mv.i + 1, 2 * mv.i + 2}
    /\ (mv.pc = "done" /\ mv.ok /\ mv.n > 0) => mv.log = Arrivals(mv.n)

\* The frame of the third segment has been written, after two segments that
\* arrived.
C35_Witness ==
    /\ sc.by = "mv_seg" /\ sc.pc = "wait" /\ sc.sent > 0
    /\ mv.i = 2 /\ mv.log = Arrivals(2)

\* move_to has returned failure after the arrival wait of its second
\* segment failed.
C35_MissedWitness ==
    /\ mv.pc = "done" /\ ~mv.ok /\ mv.i = 1
    /\ mv.log = Arrivals(1) \o <<"accepted", "missed">>

\* C36: move_by with a delta beyond 75 steps on either axis writes no
\* MoveRelative frame and calls move_to with the position plus the deltas on
\* both axes; with both deltas within 75 steps it sends one MoveRelative
\* command on both axes that carries the deltas, writes no MoveAbsolute
\* frame, and returns success exactly when the command was accepted.
C36_MoveByIsRelativeUpToTheThreshold ==
    (mv.pc # "idle" /\ mv.via = "move_by") =>
       IF Abs(mv.rel[1]) > RelativeThreshold \/ Abs(mv.rel[2]) > RelativeThreshold
       THEN /\ g.txcmd # CMD_MOVE
            /\ sc.pc # "idle" => sc.cmd # CMD_MOVE
            /\ mv.pc # "by_sent"
            /\ mv.pc # "by_pos" =>
                  /\ mv.hx /\ mv.hy
                  /\ mv.x = mv.from[1] + mv.rel[1]
                  /\ mv.y = mv.from[2] + mv.rel[2]
       ELSE /\ mv.pc \in {"by_sent", "done"}
            /\ g.moves = 0
            /\ g.txcmd \in {0, CMD_MOVE}
            /\ g.txcmd = CMD_MOVE =>
                  g.tx = [cmd |-> CMD_MOVE, mask |-> MOTOR_BOTH,
                          p1 |-> mv.rel[1], p2 |-> mv.rel[2]]
            /\ mv.pc = "by_sent" =>
                  /\ sc.via = "move_by" /\ sc.cmd = CMD_MOVE
                  /\ sc.p1 = mv.rel[1] /\ sc.p2 = mv.rel[2]
            /\ mv.pc = "done" => (mv.ok <=> mv.log = <<"accepted">>)

\* move_by at the threshold on both axes has returned success after its
\* MoveRelative frame.
C36_Witness ==
    /\ mv.pc = "done" /\ mv.via = "move_by" /\ mv.ok
    /\ mv.rel = <<RelativeThreshold, -RelativeThreshold>>
    /\ g.txcmd = CMD_MOVE

\* move_by one step beyond the threshold has returned what its segmented
\* move_to returned.
C36_LargeWitness ==
    /\ mv.pc = "done" /\ mv.via = "move_by" /\ mv.ok
    /\ mv.rel = <<RelativeThreshold + 1, 0>>
    /\ mv.n >= 2 /\ g.moves >= 2

----------------------------------------------------------------------------
(* perform_scan: the progress of resumed scans                             *)

\* A resumed scan is running: perform_scan(resume=True) has been entered and
\* has not returned.
Resuming == ps.resume /\ ps.pc \notin {"idle", "done"}

\* C37: after every completed grid point and after every return of
\* perform_scan, of first and of resumed runs, completed_points is the
\* number of points recorded in points_done, and completed_points never
\* decreases while a scan is being resumed.
C37_CompletedPointsCountsPointsDone ==
    [][/\ (ps.pc = "pos" /\ ps'.pc = "loop") =>
              scn'.completed_points = Len(scn'.points_done)
       /\ (ps.pc # "done" /\ ps'.pc = "done") =>
              scn'.completed_points = Len(scn'.points_done)
       /\ Resuming => scn'.completed_points >= scn.completed_points]_vars

\* A run that is not resumed counts what it records: the part of C37 that
\* holds.
C37_FirstRunCounts ==
    (~ps.resume /\ ps.pc \in {"loop", "moving", "pos", "shutdown", "done"}
        /\ ps.how # "refused") =>
       scn.completed_points = Len(scn.points_done)

\* A resumed scan has completed a point after two points of an earlier run.
C37_ResumedPoint ==
    /\ ps.resume /\ ps.pc = "loop" /\ ps.k = 2
    /\ Len(ps.done0) = 2
    /\ scn.completed_points = 1 /\ Len(scn.points_done) = 3

\* The number of times cell c occurs in the sequence of points.
CellCount(points, c) == Cardinality({i \in 1..Len(points) : points[i] = c})

\* The cells <<row, col>> of the grid of the scanner.
GridCells == (0..(scn.y_steps - 1)) \X (0..(scn.x_steps - 1))

\* The points the data callback has returned for since the scan began:
\* those of the runs this run continues (none for a run that is not
\* resumed), which recorded a point exactly when its callback had returned
\* (C24), and those of this run, less the one whose callback raised.
CallbacksCompleted ==
    ps.done0 \o (IF ps.how = "raised"
                  THEN SubSeq(ps.called, 1, Len(ps.called) - 1)
                  ELSE ps.called)

\* C38: after one initialize_scan, a first perform_scan and any number of
\* perform_scan(resume=True) that continue failed runs, a run that returns
\* success leaves the data callback called to completion exactly once for
\* every cell of the grid, and every cell exactly once in points_done.
C38_ResumedScansCoverTheGridOnce ==
    (ps.pc = "done" /\ ps.ok /\ ps.cb) =>
       /\ Len(scn.points_done) = scn.x_steps * scn.y_steps
       /\ \A c \in GridCells :
             /\ CellCount(CallbacksCompleted, c) = 1
             /\ CellCount(scn.points_done, c) = 1

\* Every run, failed or not, returns with the points of a beginning of the
\* snake order recorded, each after its callback has returned: the states
\* the next run may begin in.
C38_RunsLeaveABeginningOfTheOrder ==
    (ps.pc = "done" /\ ps.how # "refused") =>
       /\ IsPrefix(scn.points_done, SnakeOrder)
       /\ IsPrefix(ps.done0, scn.points_done)
       /\ ps.cb => CallbacksCompleted = scn.points_done

\* A scan resumed after two recorded points has returned success with the
\* callback called for the other two.
C38_Witness ==
    /\ ps.pc = "done" /\ ps.ok /\ ps.cb /\ ps.resume
    /\ Len(ps.done0) = 2 /\ Len(ps.called) = 2
    /\ Len(scn.points_done) = 4

\* A resumed run has failed at a point after it recorded one more.
C38_FailedAgain ==
    /\ ps.pc = "done" /\ ~ps.ok /\ ps.cb /\ ps.resume
    /\ Len(ps.done0) = 1 /\ Len(scn.points_done) = 2

----------------------------------------------------------------------------
(* move_to_position: the speed and the acceleration left in force          *)

\* The value in force after a call: what the last frame written during the
\* call carries, or the configured value that initialize_scan had sent.
InForce(written, configured) == IF written = 0 THEN configured ELSE written

\* C39: when move_to_position has returned, with success or with failure,
\* the last SetSpeed and the last SetAccel command sent to the device carry
\* the configured motor_speed and motor_accel: the halved values of the
\* recovery do not stay in force.
C39_ConfiguredSpeedAfterMoveToPosition ==
    mp.pc = "done" =>
       /\ InForce(mp.speed, MotorSpeed) = MotorSpeed
       /\ InForce(mp.accel, MotorAccel) = MotorAccel

\* The part of C39 that holds: a call that returned without a recovery, or
\* after a recovery whose last two commands were written, leaves the
\* configured values.
C39_RestoredWhenRecovered ==
    (mp.pc = "done" /\ mp.ok /\ env.link = "up" /\ env.changes = MaxLinkChanges) =>
       /\ InForce(mp.speed, MotorSpeed) = MotorSpeed
       /\ InForce(mp.accel, MotorAccel) = MotorAccel

\* move_to_position has returned failure after a recovery that sent the
\* halved values and failed.
C39_SlowAfterFailure ==
    /\ mp.pc = "done" /\ ~mp.ok /\ mp.recoveries = 1
    /\ mp.speed = MotorSpeed \div 2 /\ mp.accel = MotorAccel \div 2

\* move_to_position has returned success after a recovery that restored
\* the configured values.
C39_RestoredAfterSuccess ==
    /\ mp.pc = "done" /\ mp.ok /\ mp.recoveries = 1
    /\ mp.speed = MotorSpeed /\ mp.accel = MotorAccel

----------------------------------------------------------------------------
(* The scanner's connect and disconnect: connection_status                 *)

\* The scanner believes it is connected only while the controller is.
StatusIsTrue(status, c) == status => c.connected

\* C40: after any sequence of connect() and disconnect() of the scanner,
\* whatever the pings give, connection_status is true only if the
\* controller's connected flag is: every such call that begins with
\* connection_status true only if connected is, ends so (and the scanner
\* begins so, not connected).
C40_StatusOnlyWhileConnected ==
    (cn.pc = "after" /\ cn.by = "scanner"
        /\ StatusIsTrue(cn.status0, cn.before)) =>
       StatusIsTrue(scn.connection_status, ctl)

\* The part of C40 that holds: disconnect() of the scanner, and connect()
\* that succeeds, end with connection_status equal to the connected flag.
C40_AgreeAfterDisconnectAndSuccess ==
    (cn.pc = "after" /\ cn.by = "scanner"
        /\ (cn.op = "disconnect" \/ cn.ok)) =>
       scn.connection_status = ctl.connected

\* connect() of a connected scanner has failed: the controller is
\* disconnected, the scanner's status is as it was.
C40_FailedReconnect ==
    /\ cn.pc = "after" /\ cn.by = "scanner" /\ cn.op = "connect" /\ ~cn.ok
    /\ cn.status0 /\ cn.before.connected
    /\ scn.connection_status /\ ~ctl.connected /\ ~ctl.transfer

====
